---- MODULE Spec2Model ----
(***************************************************************************)
(* Verification model of chapa-cli.                                        *)
(*                                                                         *)
(* Part 1: the device-authorization poller, login(serverUrl, opts).        *)
(* One login runs per behaviour.  Its suspension points are the steps of   *)
(* the model: the call itself (Login), the timer of sleep() firing, which  *)
(* issues the poll request (Tick), and the poll request settling, which    *)
(* runs the rest of the loop body up to the next suspension (Respond).     *)
(*                                                                         *)
(* Part 2: the config store (loadConfig, saveConfig, deleteConfig) on the   *)
(* credentials file, whose text is a sequence of JSON tokens.              *)
(*                                                                         *)
(* Part 3: the stats aggregation, buildStatsFromRaw and computePrWeight,   *)
(* called once per behaviour on a payload drawn from RawPayloads.          *)
(*                                                                         *)
(* Part 4: the merge command of main with fetchEmuStats,                   *)
(* uploadSupplementalStats and sendTelemetry; its steps are main up to the *)
(* first await and the settling of each of the three requests.             *)
(*                                                                         *)
(* Part 5: main from the parsed arguments to the command it runs: the      *)
(* --version, --help and --json/--verbose exits, --insecure, and the       *)
(* dispatch of login, logout and merge.                                    *)
(*                                                                         *)
(* Part 6: several calls of login in one process, which share the process  *)
(* (process.exit), the credentials file and the source of session ids.     *)
(*                                                                         *)
(* Part 7: the exported pure functions computePrWeight, resolveToken,      *)
(* classifyError and parseArgs called directly, one call per behaviour.    *)
(*                                                                         *)
(* Strings that the code inspects (URLs, error messages, error codes) are  *)
(* sequences of tokens; String.includes is contiguous sub-sequence.  The   *)
(* messages that classifyError searches are sequences of characters.       *)
(***************************************************************************)
EXTENDS Integers, Sequences, FiniteSets, TLC

VARIABLES
    pc,                \* position of login: "start" | "sleep" | "fetch" | "returned" | "exited"
    verbose,           \* opts.verbose
    insecure,          \* opts.insecure
    serverUrl,         \* the serverUrl argument
    baseUrl,           \* const baseUrl
    i,                 \* the loop variable
    serverErrorLogged, \* let serverErrorLogged
    pollCount,         \* fetch() calls issued by this login
    resp,              \* how the poll request issued last settled (NoResp while in flight)
    out,               \* the lines written by the step taken last
    config,            \* the record held by the config store (NoConfig when none)
    saveCount,         \* the saveConfig() calls of this login
    exitCode,          \* the arguments of the process.exit calls (<<>> while the process runs)
    state,             \* AuthSession state: "polling" | "approved" | "expired" | "timed-out"
    settled,           \* history: the poll requests that have settled
    allPending,        \* history: every poll settled so far was HTTP-success "pending"
    allPendingBefore,  \* history: allPending as it was when the request issued last was issued
    nonOkSeen,         \* history: a non-2xx response had settled when that request was issued
    diagnosed,         \* history: the failure categories a diagnostic was written for
    waitedMs           \* history: the milliseconds of the sleep() calls that have resolved

VARIABLES
    file,              \* ~/.chapa/credentials.json: [exists, text]
    fileHolds,         \* history: what was put in the file: [kind, obj]
    storeLog           \* history: the latest calls of the config store, oldest first

loginVars == <<pc, verbose, insecure, serverUrl, baseUrl, i, serverErrorLogged, pollCount,
               resp, out, config, saveCount, exitCode, state, settled, allPending,
               allPendingBefore, nonOkSeen, diagnosed, waitedMs>>

storeVars == <<file, fileHolds, storeLog>>

VARIABLES
    statsInput,        \* the raw payload buildStatsFromRaw was last called with
    statsResult        \* what that call did: [called, threw, stats]

statsVars == <<statsInput, statsResult>>

VARIABLES
    mpc,               \* where main is: "start", "fetching", "uploading", "telemetry", "exited"
    inv,               \* the invocation: the parsed arguments and the environment
    locals,            \* main's local constants, as far as they are assigned
    events,            \* output written and requests started, in order
    twinEvents,        \* history: the same for the invocation with the other EMU token
    gh,                \* history: what the GitHub request came back with
    up,                \* history: what the upload request came back with
    tel,               \* history: what the telemetry request came back with
    mExit              \* the process exit code once the process has ended: <<>> or <<code>>

mergeVars == <<mpc, inv, locals, events, twinEvents, gh, up, tel, mExit>>

VARIABLES
    command,           \* the command main runs: "none" until it is dispatched
    stored0,           \* history: the credential record stored when the process started
    args,              \* the boolean options of the parsed arguments
    tlsEnv,            \* process.env.NODE_TLS_REJECT_UNAUTHORIZED
    startup            \* what main wrote before the command ran, and its exit code if it
                       \* ended there: [lines, exit]

cliVars == <<command, stored0, args, tlsEnv, startup>>

VARIABLES
    weighed,           \* a direct call of computePrWeight: [called, pr, weight]
    resolved,          \* a direct call of resolveToken: [called, flag, env, ret]
    classified,        \* a call of classifyError on the message of a failed upload:
                       \* [called, cause, message, ret]
    parsed             \* a direct call of parseArgs: [called, cmd, pairs, argv, ret]

callVars == <<weighed, resolved, classified, parsed>>

VARIABLES
    logins,            \* the calls of login in one process, by caller: the locals of each
    uuids,             \* the randomUUID() calls made so far
    credentials,       \* the record saveConfig wrote last (Nul when none)
    processExit        \* the argument of process.exit (<<>> while the process runs)

sessionVars == <<logins, uuids, credentials, processExit>>

vars == <<loginVars, storeVars, statsVars, mergeVars, cliVars, callVars, sessionVars>>

----------------------------------------------------------------------------
(* Program constants *)

POLL_INTERVAL_MS == 2000
MAX_POLL_ATTEMPTS == 150

(* Values *)
Undefined == "<undefined>"
Null == "<null>"
EmptyBody == [json |-> "object", status |-> Undefined, token |-> Undefined, handle |-> Undefined]
NoResp == [kind |-> "in-flight"]
NoConfig == [present |-> FALSE]

\* JavaScript truthiness of an optional string
Truthy(v) == v # Undefined /\ v # Null /\ v # ""

----------------------------------------------------------------------------
(* Strings as token sequences *)

\* String.prototype.includes
Includes(s, p) ==
    \E k \in 0..(Len(s) - Len(p)) : SubSeq(s, k + 1, k + Len(p)) = p

RECURSIVE Join(_, _)
\* Array.prototype.join
Join(parts, sep) ==
    IF Len(parts) = 0 THEN <<>>
    ELSE IF Len(parts) = 1 THEN parts[1]
    ELSE parts[1] \o sep \o Join(Tail(parts), sep)

\* mutant: the pattern without its quantifier, /\/$/
StripOneSlash(u) ==
    IF Len(u) > 0 /\ u[Len(u)] = "/" THEN SubSeq(u, 1, Len(u) - 1) ELSE u

RECURSIVE StripTrailingSlashes(_)
\* serverUrl.replace(/\/+$/, "")
StripTrailingSlashes(u) ==
    IF Len(u) > 0 /\ u[Len(u)] = "/"
    THEN StripTrailingSlashes(SubSeq(u, 1, Len(u) - 1))
    ELSE u

----------------------------------------------------------------------------
(* Output lines *)

Line(kind, poll, status, text) ==
    [kind |-> kind, poll |-> poll, status |-> status, text |-> text]

AuthorizeLines(url) ==
    << Line("open-this-url", 0, 0, <<>>),
       Line("authorize-url", 0, 0, url \o <<"/cli/authorize?session=">>),
       Line("tip", 0, 0, <<>>),
       Line("waiting", 0, 0, <<>>) >>

----------------------------------------------------------------------------
(* TLS classification of a thrown value *)

TLS_ERROR_PATTERNS ==
    { <<"UNABLE_TO_VERIFY_LEAF_SIGNATURE">>,
      <<"CERT_HAS_EXPIRED">>,
      <<"DEPTH_ZERO_SELF_SIGNED_CERT">>,
      <<"SELF_SIGNED_CERT_IN_CHAIN">>,
      <<"ERR_TLS_CERT_ALTNAME_INVALID">>,
      <<"CERTIFICATE_VERIFY_FAILED">>,
      <<"self-signed", " ", "certificate">>,
      <<"unable", " ", "to", " ", "verify">>,
      <<"certificate", " ", "has", " ", "expired">> }

isTlsError(message) ==
    \E p \in TLS_ERROR_PATTERNS : Includes(message, p)

\* A thrown value is the list of the values reached through .cause, outermost
\* first; each is [isError, message, code], code = <<>> when absent or empty.
\* The walks stop at the first value that is not an Error.
RECURSIVE ErrorPrefix(_)
ErrorPrefix(err) ==
    IF Len(err) = 0 \/ ~err[1].isError THEN <<>>
    ELSE <<err[1]>> \o ErrorPrefix(Tail(err))

getRootErrorMessage(err) ==
    LET walked == ErrorPrefix(err)
    IN IF Len(walked) = 0 THEN <<>> ELSE walked[Len(walked)].message

RECURSIVE ChainParts(_)
ChainParts(walked) ==
    IF Len(walked) = 0 THEN <<>>
    ELSE <<walked[1].message>>
         \o (IF Len(walked[1].code) > 0 THEN <<walked[1].code>> ELSE <<>>)
         \o ChainParts(Tail(walked))

\* mutant: only the outermost error is looked at
OutermostMessageOnly(err) ==
    IF Len(ErrorPrefix(err)) = 0 THEN <<>> ELSE err[1].message

getFullErrorChain(err) ==
    Join(ChainParts(ErrorPrefix(err)), <<" ", "|", " ">>)

----------------------------------------------------------------------------
(* Inputs: the arguments of login and the ways a poll request settles *)

MaxTrailingSlashes == 2

RECURSIVE Slashes(_)
Slashes(n) == IF n = 0 THEN <<>> ELSE <<"/">> \o Slashes(n - 1)

ServerUrls ==
    { <<"https:", "/", "/", "example.com">> \o Slashes(n) : n \in 0..MaxTrailingSlashes }

Err(message, code) == [isError |-> TRUE, message |-> message, code |-> code]
NonErr(message, code) == [isError |-> FALSE, message |-> message, code |-> code]

FetchFailed == Err(<<"fetch", " ", "failed">>, <<>>)

ThrownValues ==
    { \* new Error("fetch failed")
      << FetchFailed >>,
      \* fetch failed <- ECONNREFUSED
      << FetchFailed, Err(<<"connect", " ", "ECONNREFUSED">>, <<"ECONNREFUSED">>) >>,
      \* new Error("UNABLE_TO_VERIFY_LEAF_SIGNATURE")
      << Err(<<"UNABLE_TO_VERIFY_LEAF_SIGNATURE">>, <<>>) >>,
      \* fetch failed <- CERT_HAS_EXPIRED
      << FetchFailed, Err(<<"CERT_HAS_EXPIRED">>, <<>>) >>,
      \* fetch failed <- "self-signed certificate in certificate chain", no code
      << FetchFailed,
         Err(<<"self-signed", " ", "certificate", " ", "in", " ", "certificate", " ", "chain">>,
             <<>>) >>,
      \* fetch failed <- an error whose code alone names the TLS failure
      << FetchFailed, Err(<<"request", " ", "failed">>, <<"DEPTH_ZERO_SELF_SIGNED_CERT">>) >>,
      \* a pattern's words split between a message and a code
      << Err(<<"self-signed">>, <<"certificate">>) >>,
      \* throw of a value that is not an Error
      << NonErr(<<"CERT_HAS_EXPIRED">>, <<>>) >>,
      \* an Error whose cause is not an Error
      << FetchFailed, NonErr(<<"CERT_HAS_EXPIRED">>, <<"CERT_HAS_EXPIRED">>) >> }

Body(status, token, handle) ==
    [json |-> "object", status |-> status, token |-> token, handle |-> handle]

Bodies ==
    { Body("pending", Undefined, Undefined),
      Body("expired", Undefined, Undefined),
      Body("denied", Undefined, Undefined),
      Body(Undefined, "tok", "alice"),
      [EmptyBody EXCEPT !.json = "null"],
      [EmptyBody EXCEPT !.json = "invalid"] }
    \cup { Body("approved", t, h) : t \in {Undefined, "", "tok"}, h \in {Undefined, "", "alice"} }

Http(status, body) == [kind |-> "http", status |-> status, body |-> body]
Throw(err) == [kind |-> "throw", err |-> err]

Outcomes ==
    { Http(200, b) : b \in Bodies }
    \cup { Http(st, EmptyBody) : st \in {500, 503} }
    \cup { Throw(e) : e \in ThrownValues }

----------------------------------------------------------------------------
(* The loop body of login *)

\* res.ok
ResOk(r) == r.status >= 200 /\ r.status <= 299

\* what res.json() throws on a body that is not JSON
JsonSyntaxError == << Err(<<"Unexpected", " ", "token">>, <<>>) >>

\* control reaches the catch clause
Throws(r) == r.kind = "throw" \/ (ResOk(r) /\ r.body.json = "invalid")

Caught(r) == IF r.kind = "throw" THEN r.err ELSE JsonSyntaxError

\* data?.status
DataStatus(data) == IF data.json = "object" THEN data.status ELSE Undefined

\* mutant: the token and the handle are not tested
IsApprovedStatusOnly(data) == DataStatus(data) = "approved"

IsApproved(data) ==
    DataStatus(data) = "approved" /\ Truthy(data.token) /\ Truthy(data.handle)

IsExpired(data) == DataStatus(data) = "expired"

\* mutant: the first-occurrence flag is not consulted
NonOkLinesEveryTime(k, status, v, logged) ==
    IF v THEN << Line("poll-http", k + 1, status, <<>>) >>
    ELSE << Line("server-returned", 0, status, <<>>) >>

NonOkLines(k, status, v, logged) ==
    IF v THEN << Line("poll-http", k + 1, status, <<>>) >>
    ELSE IF ~logged THEN << Line("server-returned", 0, status, <<>>) >>
    ELSE <<>>

StatusLines(k, data, v) ==
    IF v
    THEN << Line("poll-status", k + 1, 0,
                 IF DataStatus(data) = Undefined THEN <<"no status">>
                 ELSE <<DataStatus(data)>>) >>
    ELSE <<>>

TlsLines(rootMsg) ==
    << Line("tls-error", 0, 0, rootMsg),
       Line("tls-interception", 0, 0, <<>>),
       Line("try-insecure", 0, 0, <<>>) >>

SuggestsInsecure(err, ins) == ~ins /\ isTlsError(getFullErrorChain(err))

\* mutant: the network error is logged whatever the verbose option is
CatchLinesUnconditional(k, err, v, ins) ==
    << Line("poll-network-error", k + 1, 0, getRootErrorMessage(err)) >>
    \o (IF SuggestsInsecure(err, ins) THEN TlsLines(getRootErrorMessage(err)) ELSE <<>>)

CatchLines(k, err, v, ins) ==
    (IF v THEN << Line("poll-network-error", k + 1, 0, getRootErrorMessage(err)) >> ELSE <<>>)
    \o (IF SuggestsInsecure(err, ins) THEN TlsLines(getRootErrorMessage(err)) ELSE <<>>)

ApprovedLines(handle) ==
    << Line("logged-in", 0, 0, <<handle>>), Line("credentials-saved", 0, 0, <<>>) >>

ExpiredLines == << Line("session-expired", 0, 0, <<>>) >>

TimedOutLines == << Line("timed-out", 0, 0, <<>>) >>

\* mutant: an inclusive loop test
LoopContinuesInclusive(n) == n <= MAX_POLL_ATTEMPTS

\* the loop condition
LoopContinues(n) == n < MAX_POLL_ATTEMPTS

\* mutant: a dot before the first poll as well
ProgressDueFromStart(n) == n % 5 = 0

\* the progress condition
ProgressDue(n) == n > 0 /\ n % 5 = 0

\* the failure categories of the diagnostics among lines
Categories(lines) ==
    { c \in {"non-2xx", "tls", "network"} :
        \E n \in 1..Len(lines) :
            \/ c = "non-2xx" /\ lines[n].kind \in {"poll-http", "server-returned"}
            \/ c = "tls" /\ lines[n].kind = "tls-error"
            \/ c = "network" /\ lines[n].kind = "poll-network-error" }

----------------------------------------------------------------------------
(* The state machine of login *)

\* before login is called, whatever credential record is stored
LoginIdle ==
    /\ pc = "start"
    /\ verbose = FALSE
    /\ insecure = FALSE
    /\ serverUrl = <<>>
    /\ baseUrl = <<>>
    /\ i = 0
    /\ serverErrorLogged = FALSE
    /\ pollCount = 0
    /\ resp = NoResp
    /\ out = <<>>
    /\ saveCount = 0
    /\ exitCode = <<>>
    /\ state = "polling"
    /\ settled = 0
    /\ allPending = TRUE
    /\ allPendingBefore = TRUE
    /\ nonOkSeen = FALSE
    /\ diagnosed = {}
    /\ waitedMs = 0

LoginInit == LoginIdle /\ config = NoConfig

\* login(url, {verbose: v, insecure: ins}) up to the first await sleep()
Login(url, v, ins) ==
    /\ pc = "start"
    /\ verbose' = v
    /\ insecure' = ins
    /\ serverUrl' = url
    /\ baseUrl' = StripTrailingSlashes(url)
    /\ out' = AuthorizeLines(StripTrailingSlashes(url))
    /\ serverErrorLogged' = FALSE
    /\ i' = 0
    /\ pc' = "sleep"
    /\ UNCHANGED <<pollCount, resp, config, saveCount, exitCode, state>>
    /\ UNCHANGED <<settled, allPending, allPendingBefore, nonOkSeen, diagnosed, waitedMs>>

\* mutant: no wait before the first poll
SleptAfterFirst(n) == IF n = 0 THEN 0 ELSE POLL_INTERVAL_MS

\* await sleep(POLL_INTERVAL_MS) at the top of iteration n
Slept(n) == POLL_INTERVAL_MS

\* sleep(POLL_INTERVAL_MS) resolves: the progress dot, then fetch() is called
Tick ==
    /\ pc = "sleep"
    /\ waitedMs' = waitedMs + Slept(i)
    /\ out' = IF ProgressDue(i) THEN << Line("dot", 0, 0, <<>>) >> ELSE <<>>
    /\ pollCount' = pollCount + 1
    /\ resp' = NoResp
    /\ pc' = "fetch"
    /\ UNCHANGED <<verbose, insecure, serverUrl, baseUrl, i, serverErrorLogged, config,
                   saveCount, exitCode, state>>
    /\ allPendingBefore' = allPending
    /\ nonOkSeen' = (nonOkSeen \/ (resp.kind = "http" /\ ~ResOk(resp)))
    /\ UNCHANGED <<settled, allPending, diagnosed>>

\* mutant: past the loop the timeout is reported and login returns (no process.exit)
NextIterationReturning(lines) ==
    /\ i' = i + 1
    /\ IF LoopContinues(i + 1)
       THEN /\ pc' = "sleep"
            /\ out' = lines
            /\ UNCHANGED <<exitCode, state>>
       ELSE /\ pc' = "returned"
            /\ out' = lines \o TimedOutLines
            /\ state' = "timed-out"
            /\ UNCHANGED exitCode
    /\ UNCHANGED <<config, saveCount>>

\* `continue`, or the end of the loop body: i++, the loop test, and past the loop
\* the timeout
NextIteration(lines) ==
    /\ i' = i + 1
    /\ IF LoopContinues(i + 1)
       THEN /\ pc' = "sleep"
            /\ out' = lines
            /\ UNCHANGED <<exitCode, state>>
       ELSE /\ pc' = "exited"
            /\ out' = lines \o TimedOutLines
            /\ exitCode' = Append(exitCode, 1)
            /\ state' = "timed-out"
    /\ UNCHANGED <<config, saveCount>>

\* mutant: the credential is saved and the loop goes on (no return)
ApproveNoReturn(lines, data) ==
    /\ config' = [present |-> TRUE, token |-> data.token, handle |-> data.handle,
                  server |-> baseUrl]
    /\ saveCount' = saveCount + 1
    /\ out' = lines \o ApprovedLines(data.handle)
    /\ i' = i + 1
    /\ pc' = "sleep"
    /\ state' = "approved"
    /\ UNCHANGED exitCode

\* saveConfig({token, handle, server: baseUrl}) and return
Approve(lines, data) ==
    /\ config' = [present |-> TRUE, token |-> data.token, handle |-> data.handle,
                  server |-> baseUrl]
    /\ saveCount' = saveCount + 1
    /\ out' = lines \o ApprovedLines(data.handle)
    /\ pc' = "returned"
    /\ state' = "approved"
    /\ UNCHANGED <<i, exitCode>>

\* mutant: the expiry is reported and the loop goes on (no process.exit)
ExpireNoExit(lines) == NextIteration(lines \o ExpiredLines)

\* process.exit(1) on an expired session
Expire(lines) ==
    /\ out' = lines \o ExpiredLines
    /\ exitCode' = Append(exitCode, 1)
    /\ pc' = "exited"
    /\ state' = "expired"
    /\ UNCHANGED <<i, config, saveCount>>

\* if (!res.ok) { ... continue; }
OnNonOk(r) ==
    /\ serverErrorLogged' = (serverErrorLogged \/ ~verbose)
    /\ diagnosed' = diagnosed
           \cup Categories(NonOkLines(i, r.status, verbose, serverErrorLogged))
    /\ NextIteration(NonOkLines(i, r.status, verbose, serverErrorLogged))

\* mutant: no catch clause, the rejection ends the process
OnThrowFatal(err) ==
    /\ out' = << Line("poll-network-error", i + 1, 0, getRootErrorMessage(err)) >>
    /\ exitCode' = Append(exitCode, 1)
    /\ pc' = "exited"
    /\ UNCHANGED <<i, state, config, saveCount, serverErrorLogged, diagnosed>>

\* catch (err) { ... continue; }
OnThrow(err) ==
    /\ diagnosed' = diagnosed \cup Categories(CatchLines(i, err, verbose, insecure))
    /\ NextIteration(CatchLines(i, err, verbose, insecure))
    /\ UNCHANGED serverErrorLogged

\* the loop body after the try statement
OnData(data) ==
    /\ IF IsApproved(data)
       THEN Approve(StatusLines(i, data, verbose), data)
       ELSE IF IsExpired(data)
       THEN Expire(StatusLines(i, data, verbose))
       ELSE NextIteration(StatusLines(i, data, verbose))
    /\ UNCHANGED <<serverErrorLogged, diagnosed>>

\* the poll request settles as r: the rest of the loop body
Respond(r) ==
    /\ pc = "fetch"
    /\ resp' = r
    /\ settled' = settled + 1
    /\ allPending' = (allPending /\ r.kind = "http" /\ ResOk(r) /\ r.body.json = "object"
                                 /\ r.body.status = "pending")
    /\ UNCHANGED <<allPendingBefore, nonOkSeen>>
    /\ IF r.kind = "http" /\ ~ResOk(r)
       THEN OnNonOk(r)
       ELSE IF Throws(r)
       THEN OnThrow(Caught(r))
       ELSE OnData(r.body)
    /\ UNCHANGED <<verbose, insecure, serverUrl, baseUrl, pollCount, waitedMs>>

LoginNext ==
    \/ \E url \in ServerUrls, v \in BOOLEAN, ins \in BOOLEAN : Login(url, v, ins)
    \/ Tick
    \/ \E r \in Outcomes : Respond(r)

----------------------------------------------------------------------------
(* What the claims call things, stated on the inputs and the observable effects *)

Settled == resp.kind # "in-flight"

HttpSuccess(r) == r.kind = "http" /\ r.status \in 200..299

PendingResponse(r) ==
    HttpSuccess(r) /\ r.body.json = "object" /\ r.body.status = "pending"

ApprovedWithCredential(r) ==
    /\ HttpSuccess(r) /\ r.body.json = "object" /\ r.body.status = "approved"
    /\ r.body.token \notin {Undefined, ""}
    /\ r.body.handle \notin {Undefined, ""}

ExpiredResponse(r) ==
    HttpSuccess(r) /\ r.body.json = "object" /\ r.body.status = "expired"

\* server is url without its trailing slashes
StrippedOf(server, url) ==
    \E n \in 0..Len(url) :
        /\ server = SubSeq(url, 1, n)
        /\ n = 0 \/ url[n] # "/"
        /\ \A m \in (n + 1)..Len(url) : url[m] = "/"

Terminal == {"approved", "expired", "timed-out"}

----------------------------------------------------------------------------
(* C1: when the first N polls (N < 150) settle HTTP-success "pending" and the
   next one settles "approved" with a token and a handle, the login has issued
   exactly N+1 poll requests, has called saveConfig exactly once, with that
   token, that handle and the server URL without its trailing slashes, and has
   returned without process.exit. *)
C1_PendingThenApproved ==
    (Settled /\ allPendingBefore /\ ApprovedWithCredential(resp)) =>
        /\ settled - 1 < MAX_POLL_ATTEMPTS
        /\ pollCount = (settled - 1) + 1
        /\ saveCount = 1
        /\ config.present
        /\ config.token = resp.body.token
        /\ config.handle = resp.body.handle
        /\ StrippedOf(config.server, serverUrl)
        /\ pc = "returned"
        /\ exitCode = <<>>
        /\ ~ENABLED Tick

C1_Witness ==
    /\ Settled /\ allPendingBefore /\ ApprovedWithCredential(resp)
    /\ settled = 3
    /\ Len(serverUrl) > Len(config.server) + 1
    /\ pc = "returned"

(* C2: when each of the first 150 polls settles "pending", the login has issued
   exactly 150 poll requests, has never called saveConfig and has ended with
   process.exit(1) on the timeout; and no login ever issues more than 150 poll
   requests. *)
C2_TimeoutAfter150 ==
    /\ pollCount <= MAX_POLL_ATTEMPTS
    /\ (allPending /\ settled = MAX_POLL_ATTEMPTS) =>
           /\ pollCount = MAX_POLL_ATTEMPTS
           /\ saveCount = 0
           /\ config = NoConfig
           /\ pc = "exited"
           /\ exitCode = <<1>>
           /\ state = "timed-out"
           /\ ~ENABLED Tick

C2_Witness ==
    allPending /\ settled = MAX_POLL_ATTEMPTS /\ state = "timed-out"

(* C3: an "expired" response, at the first poll or at any later one, ends the
   login with process.exit(1), without a saveConfig call and without a further
   poll request: the requests issued are exactly those settled so far (1 when
   the first response is "expired"). *)
C3_ExpiredIsFatal ==
    (Settled /\ ExpiredResponse(resp)) =>
        /\ pc = "exited"
        /\ exitCode = <<1>>
        /\ state = "expired"
        /\ saveCount = 0
        /\ config = NoConfig
        /\ pollCount = settled
        /\ ~ENABLED Tick

C3_Witness ==
    Settled /\ ExpiredResponse(resp) /\ settled = 1 /\ pollCount = 1 /\ pc = "exited"

TerminalStep ==
    state \in Terminal =>
        /\ pollCount' = pollCount
        /\ saveCount' = saveCount
        /\ config' = config
        /\ state' = state
        /\ pc' = pc

(* C4: once a login is in a terminal state (approved, expired, timed-out) it
   issues no poll request, calls saveConfig no more, and its state stays. *)
C4_TerminalIsFinal == [][TerminalStep]_vars

C4_Witness ==
    state = "approved" /\ pc = "returned" /\ saveCount = 1 /\ settled > 1

----------------------------------------------------------------------------
NonOkResponse(r) == r.kind = "http" /\ r.status \notin 200..299

\* a poll failed by a thrown network or TLS error or by a non-2xx status
FailedPoll(r) == r.kind = "throw" \/ NonOkResponse(r)

\* HTTP-success, but "approved" without a token or a handle, or a status that is
\* none of pending / approved / expired, or no status at all
MalformedResponse(r) ==
    /\ HttpSuccess(r)
    /\ \/ r.body.json = "null"
       \/ /\ r.body.json = "object"
          /\ \/ r.body.status \notin {"pending", "approved", "expired"}
             \/ /\ r.body.status = "approved"
                /\ \/ r.body.token \in {Undefined, ""}
                   \/ r.body.handle \in {Undefined, ""}

\* what a "pending" response leads to: nothing saved, the attempt counted, and
\* the next poll unless this was attempt 150
PendingOutcome ==
    /\ saveCount = 0
    /\ config = NoConfig
    /\ i = settled
    /\ pollCount = settled
    /\ settled < MAX_POLL_ATTEMPTS =>
           pc = "sleep" /\ state = "polling" /\ exitCode = <<>> /\ ENABLED Tick
    /\ settled = MAX_POLL_ATTEMPTS => state = "timed-out"

OutLines(kinds) == SelectSeq(out, LAMBDA l : l.kind \in kinds)

RecommendsInsecure == OutLines({"try-insecure"}) # <<>>

\* the Errors of a thrown value's cause chain
ChainErrors(err) ==
    { err[n] : n \in { m \in 1..Len(err) : \A j \in 1..m : err[j].isError } }

TlsInChain(err) ==
    \E e \in ChainErrors(err), p \in TLS_ERROR_PATTERNS :
        Includes(e.message, p) \/ Includes(e.code, p)

QualifiesForTlsDiagnostic(err) == ~insecure /\ TlsInChain(err)

(* C5: a poll failed by a thrown error or a non-2xx status does not end the
   login: below 150 polls the next poll follows; an "approved" response with
   credential makes the login succeed whatever failed before; and the process
   exits only on an "expired" response or at the 150-attempt ceiling. *)
C5_FailedPollsAreRecoverable ==
    /\ (Settled /\ FailedPoll(resp) /\ settled < MAX_POLL_ATTEMPTS) =>
           pc = "sleep" /\ state = "polling" /\ exitCode = <<>> /\ ENABLED Tick
    /\ (Settled /\ ApprovedWithCredential(resp)) =>
           pc = "returned" /\ state = "approved" /\ saveCount = 1 /\ exitCode = <<>>
    /\ (pc = "exited" \/ exitCode # <<>>) =>
           /\ exitCode = <<1>>
           /\ ExpiredResponse(resp) \/ settled = MAX_POLL_ATTEMPTS

C5_Witness ==
    /\ state = "approved" /\ pc = "returned"
    /\ diagnosed = {"non-2xx", "tls", "network"}

(* C6: an HTTP-success response that says "approved" without a token or a
   handle, or whose status is none of pending / approved / expired (or is
   missing), has the outcome of a "pending" response: no saveConfig, the attempt
   counted, no exit and the next poll (at attempt 150, the timeout as for
   "pending"). *)
C6_MalformedIsPending ==
    /\ (Settled /\ MalformedResponse(resp)) => PendingOutcome
    /\ (Settled /\ PendingResponse(resp)) => PendingOutcome

C6_Witness ==
    /\ Settled /\ MalformedResponse(resp)
    /\ resp.body.status = "approved" /\ resp.body.token = "tok"
    /\ pc = "sleep" /\ settled = 2

NoRepeatedDiagnostic == ~verbose' => Categories(out') \cap diagnosed = {}

(* C7: in non-verbose mode no failure category (non-2xx, TLS, other network)
   gets a second diagnostic during one login. *)
C7_AtMostOneDiagnosticPerCategory == [][NoRepeatedDiagnostic]_vars

(* C8: for a poll that throws, the `chapa login --insecure` recommendation is
   printed exactly when insecure is false and some Error of the cause chain has
   a message or a code containing a TLS pattern; with insecure true it is never
   printed. *)
C8_TlsRecommendation ==
    /\ (Settled /\ resp.kind = "throw") =>
           (RecommendsInsecure <=> QualifiesForTlsDiagnostic(resp.err))
    /\ insecure => ~RecommendsInsecure

C8_Witness ==
    /\ Settled /\ resp.kind = "throw" /\ Len(resp.err) = 2
    /\ ~isTlsError(resp.err[1].message)
    /\ RecommendsInsecure

NetworkLines == OutLines({"poll-network-error"})

(* C9 as stated: a thrown error that does not qualify for the TLS diagnostic
   gets a generic network-failure diagnostic, and polling continues. *)
C9_GenericDiagnosticAlways ==
    (Settled /\ resp.kind = "throw" /\ ~QualifiesForTlsDiagnostic(resp.err)) =>
        /\ NetworkLines # <<>>
        /\ settled < MAX_POLL_ATTEMPTS => pc = "sleep"

(* C9 amended: a thrown error that does not qualify for the TLS diagnostic gets
   the generic "[poll k] network error" diagnostic exactly when verbose is set
   (one line, labelled with the poll number) and no TLS diagnostic; polling
   continues either way. *)
C9_GenericDiagnosticWhenVerbose ==
    (Settled /\ resp.kind = "throw" /\ ~QualifiesForTlsDiagnostic(resp.err)) =>
        /\ verbose => Len(NetworkLines) = 1 /\ NetworkLines[1].poll = pollCount
        /\ ~verbose => OutLines({"poll-network-error", "tls-error", "try-insecure"}) = <<>>
        /\ ~RecommendsInsecure
        /\ settled < MAX_POLL_ATTEMPTS =>
               pc = "sleep" /\ state = "polling" /\ exitCode = <<>> /\ ENABLED Tick

C9_Witness ==
    /\ Settled /\ resp.kind = "throw" /\ ~QualifiesForTlsDiagnostic(resp.err)
    /\ ~verbose /\ ~insecure /\ out = <<>> /\ pc = "sleep"

NonOkReport == OutLines({"poll-http", "server-returned"})

(* C10: in non-verbose mode a non-2xx response is reported, as one "Server
   returned <status>" line with its status, exactly when it is the first non-2xx
   response of the login; in verbose mode every non-2xx response is reported
   with its 1-based poll number and its status. *)
C10_NonOkReporting ==
    (Settled /\ NonOkResponse(resp)) =>
        IF verbose
        THEN NonOkReport = << Line("poll-http", pollCount, resp.status, <<>>) >>
        ELSE IF nonOkSeen
        THEN NonOkReport = <<>>
        ELSE NonOkReport = << Line("server-returned", 0, resp.status, <<>>) >>

C10_Witness ==
    /\ Settled /\ NonOkResponse(resp) /\ ~verbose /\ nonOkSeen
    /\ NonOkReport = <<>> /\ pc = "sleep"

----------------------------------------------------------------------------
(* The config store.  The credentials file holds text, a sequence of JSON
   tokens; a string literal is the token "str" followed by its content, so a
   content that looks like punctuation stays a content. *)

NoFile == [exists |-> FALSE, text |-> <<>>]

FileWith(text) == [exists |-> TRUE, text |-> text]

Quoted(s) == <<"str", s>>

Member(k, v) == Quoted(k) \o <<":">> \o Quoted(v)

RECURSIVE Members(_, _)
Members(c, keys) ==
    IF keys = <<>>
    THEN <<>>
    ELSE LET rest == Members(c, Tail(keys))
         IN  Member(Head(keys), c[Head(keys)])
                 \o (IF rest = <<>> THEN <<>> ELSE <<",">> \o rest)

(* JSON.stringify(config, null, 2) of a { token, handle, server } object;
   the indentation is white space between tokens and is not kept *)
Stringify(c) == <<"{">> \o Members(c, <<"token", "handle", "server">>) \o <<"}">>

SyntaxError == [ok |-> FALSE, kind |-> "", obj |-> <<>>]

Parsed(kind, obj) == [ok |-> TRUE, kind |-> kind, obj |-> obj]

RECURSIVE TrimEnd(_)
TrimEnd(t) ==
    IF t # <<>> /\ t[Len(t)] = "\n" THEN TrimEnd(SubSeq(t, 1, Len(t) - 1)) ELSE t

(* the members of an object, t being the tokens after "{" or "," *)
RECURSIVE ParseMembers(_, _)
ParseMembers(t, acc) ==
    IF Len(t) >= 5 /\ t[1] = "str" /\ t[3] = ":" /\ t[4] = "null"
    THEN LET obj == (t[2] :> Null) @@ acc
         IN  IF t[5] = "," THEN ParseMembers(SubSeq(t, 6, Len(t)), obj)
             ELSE IF t[5] = "}" /\ Len(t) = 5 THEN Parsed("object", obj)
             ELSE SyntaxError
    ELSE IF Len(t) >= 6 /\ t[1] = "str" /\ t[3] = ":" /\ t[4] = "str"
    THEN LET obj == (t[2] :> t[5]) @@ acc
         IN  IF t[6] = "," THEN ParseMembers(SubSeq(t, 7, Len(t)), obj)
             ELSE IF t[6] = "}" /\ Len(t) = 6 THEN Parsed("object", obj)
             ELSE SyntaxError
    ELSE SyntaxError

(* JSON.parse *)
JSONparse(raw) ==
    LET t == TrimEnd(raw)
    IN  IF t = <<"null">> THEN Parsed("null", <<>>)
        ELSE IF t = <<"42">> THEN Parsed("number", <<>>)
        ELSE IF t = <<"{", "}">> THEN Parsed("object", <<>>)
        ELSE IF t # <<>> /\ t[1] = "{" THEN ParseMembers(Tail(t), <<>>)
        ELSE SyntaxError

(* data.k of a parsed value that is not null *)
Prop(data, k) ==
    IF data.kind = "object" /\ k \in DOMAIN data.obj THEN data.obj[k] ELSE Undefined

ReturnNull == [threw |-> FALSE, isNull |-> TRUE, data |-> <<>>]

ReturnData(obj) == [threw |-> FALSE, isNull |-> FALSE, data |-> obj]

Thrown == [threw |-> TRUE, isNull |-> FALSE, data |-> <<>>]

(* the body of loadConfig's try block *)
LoadTry(f) ==
    LET data == JSONparse(f.text)
    IN  IF ~data.ok THEN Thrown
        ELSE IF data.kind = "null" THEN Thrown
        ELSE IF /\ Truthy(Prop(data, "token"))
                /\ Truthy(Prop(data, "handle"))
                /\ Truthy(Prop(data, "server"))
        THEN ReturnData(data.obj)
        ELSE ReturnNull

loadConfigNoCatch(f) == IF ~f.exists THEN ReturnNull ELSE LoadTry(f)

loadConfig(f) ==
    IF ~f.exists
    THEN ReturnNull
    ELSE IF LoadTry(f).threw THEN ReturnNull ELSE LoadTry(f)

saveConfigAppending(f, c) == FileWith(f.text \o Stringify(c) \o <<"\n">>)

saveConfig(f, c) == FileWith(Stringify(c) \o <<"\n">>)

deleteConfigAlwaysTrue(f) == [file |-> NoFile, ret |-> TRUE]

deleteConfig(f) == IF ~f.exists THEN [file |-> f, ret |-> FALSE] ELSE [file |-> NoFile, ret |-> TRUE]

(* The calls of the config store *)

MaxStoreLog == 3

Holds(kind, obj) == [kind |-> kind, obj |-> obj]

Cfg(t, h, s) == [token |-> t, handle |-> h, server |-> s]

(* the records handed to saveConfig *)
SavedConfigs ==
    { Cfg(t, h, s) : t \in {"tok-1", ""}, h \in {"alice", "}"}, s \in {"https://a.example", "str"} }

ForeignObject ==
    ("server" :> "https://b.example") @@ ("handle" :> "bob")
        @@ ("extra" :> "x") @@ ("token" :> "tok-2")

(* what may lie at the credentials path before the first call, with what it holds *)
InitialFiles ==
    { [file |-> NoFile, holds |-> Holds("missing", <<>>)],
      [file |-> FileWith(<<"not", "valid", "json", "{", "{", "{">>),
       holds |-> Holds("not-json", <<>>)],
      [file |-> FileWith(<<"{", "str", "token", ":">>), holds |-> Holds("not-json", <<>>)],
      [file |-> FileWith(<<"{", "str", "token", ":", "str", "abc", "}">>),
       holds |-> Holds("object", "token" :> "abc")],
      [file |-> FileWith(<<"{", "}", "\n">>), holds |-> Holds("object", <<>>)],
      [file |-> FileWith(<<"null">>), holds |-> Holds("null", <<>>)],
      [file |-> FileWith(<<"42", "\n">>), holds |-> Holds("number", <<>>)],
      [file |-> FileWith(<<"{", "str", "token", ":", "null", ",",
                           "str", "handle", ":", "str", "bob", ",",
                           "str", "server", ":", "str", "https://b.example", "}">>),
       holds |-> Holds("object", ("token" :> Null) @@ ("handle" :> "bob")
                                     @@ ("server" :> "https://b.example"))],
      [file |-> FileWith(<<"{", "str", "server", ":", "str", "https://b.example", ",",
                           "str", "handle", ":", "str", "bob", ",",
                           "str", "extra", ":", "str", "x", ",",
                           "str", "token", ":", "str", "tok-2", "}">>),
       holds |-> Holds("object", ForeignObject)] }

Call(op, arg, r, ret) ==
    [op |-> op, arg |-> arg, held |-> fileHolds, existed |-> file.exists,
     threw |-> r.threw, isNull |-> r.isNull, data |-> r.data, ret |-> ret]

Logged(call) ==
    IF Len(storeLog) < MaxStoreLog
    THEN Append(storeLog, call)
    ELSE Append(Tail(storeLog), call)

LoadConfig ==
    /\ storeLog' = Logged(Call("load", <<>>, loadConfig(file), FALSE))
    /\ UNCHANGED <<file, fileHolds>>

SaveConfig(c) ==
    /\ file' = saveConfig(file, c)
    /\ fileHolds' = Holds("object", c)
    /\ storeLog' = Logged(Call("save", c, ReturnNull, FALSE))

DeleteConfig ==
    /\ file' = deleteConfig(file).file
    /\ fileHolds' = Holds("missing", <<>>)
    /\ storeLog' = Logged(Call("delete", <<>>, ReturnNull, deleteConfig(file).ret))

StoreInit ==
    /\ \E f \in InitialFiles : file = f.file /\ fileHolds = f.holds
    /\ storeLog = <<>>

StoreIdleInit ==
    /\ file = NoFile
    /\ fileHolds = Holds("missing", <<>>)
    /\ storeLog = <<>>

----------------------------------------------------------------------------
(* The config store, as the claims state it *)

Calls(op) == { k \in 1..Len(storeLog) : storeLog[k].op = op }

FollowedBy(k, op) == k + 1 <= Len(storeLog) /\ storeLog[k + 1].op = op

Lacks(h, k) == h.kind # "object" \/ k \notin DOMAIN h.obj \/ h.obj[k] \in {Null, ""}

Unusable(h) ==
    \/ h.kind \in {"missing", "not-json"}
    \/ Lacks(h, "token") \/ Lacks(h, "handle") \/ Lacks(h, "server")

Complete(c) == c.token # "" /\ c.handle # "" /\ c.server # ""

(* C18: loadConfig never throws; it returns null when the credentials file is
   missing, is not valid JSON, or lacks a (non-empty) token, handle or server,
   and returns the record the file holds otherwise. *)
C18_LoadNeverThrows ==
    \A k \in Calls("load") :
        /\ ~storeLog[k].threw
        /\ storeLog[k].isNull <=> Unusable(storeLog[k].held)
        /\ ~storeLog[k].isNull => storeLog[k].data = storeLog[k].held.obj

C18_Witness ==
    /\ Len(storeLog) = 3
    /\ storeLog[1].op = "load" /\ storeLog[1].held.kind = "null" /\ storeLog[1].isNull
    /\ storeLog[2].op = "save"
    /\ storeLog[3].op = "load" /\ ~storeLog[3].isNull /\ storeLog[3].data = storeLog[2].arg

(* C19: for every record c with a token, a handle and a server, loadConfig
   right after saveConfig(c) returns a record equal to c; after saveConfig(a)
   then saveConfig(b), loadConfig returns b and nothing of a. *)
C19_SaveThenLoad ==
    \A k \in Calls("save") :
        (FollowedBy(k, "load") /\ Complete(storeLog[k].arg)) =>
            /\ ~storeLog[k + 1].threw /\ ~storeLog[k + 1].isNull
            /\ storeLog[k + 1].data = storeLog[k].arg
            /\ (k > 1 /\ storeLog[k - 1].op = "save") =>
                   /\ k + 1 = Len(storeLog) => file = FileWith(Stringify(storeLog[k].arg) \o <<"\n">>)
                   /\ storeLog[k - 1].arg # storeLog[k].arg =>
                          storeLog[k + 1].data # storeLog[k - 1].arg

C19_Witness ==
    /\ Len(storeLog) = 3
    /\ storeLog[1].op = "save" /\ storeLog[2].op = "save" /\ storeLog[3].op = "load"
    /\ Complete(storeLog[1].arg) /\ Complete(storeLog[2].arg)
    /\ storeLog[1].arg # storeLog[2].arg
    /\ storeLog[2].arg.handle = "}"
    /\ storeLog[3].data = storeLog[2].arg

(* C20: deleteConfig returns true exactly when something lay at the credentials
   path when it was called; loadConfig right after it returns null, and a
   deleteConfig right after it returns false. *)
C20_DeleteReportsExistence ==
    \A k \in Calls("delete") :
        /\ storeLog[k].ret <=> storeLog[k].held.kind # "missing"
        /\ FollowedBy(k, "load") => storeLog[k + 1].isNull /\ ~storeLog[k + 1].threw
        /\ FollowedBy(k, "delete") => ~storeLog[k + 1].ret

C20_Witness ==
    /\ Len(storeLog) = 3
    /\ storeLog[1].op = "delete" /\ storeLog[1].ret
    /\ storeLog[2].op = "delete" /\ ~storeLog[2].ret
    /\ storeLog[3].op = "load" /\ storeLog[3].isNull

----------------------------------------------------------------------------
(* Stats aggregation: buildStatsFromRaw.  A value that may be null or absent
   is [isNull, v]. *)

Nul == [isNull |-> TRUE, v |-> <<>>]

Some(x) == [isNull |-> FALSE, v |-> x]

(* q.reduce((sum, x) => sum + x, 0), summed by halves to keep the recursion
   shallow on long lists *)
RECURSIVE SumSeq(_)
SumSeq(q) ==
    IF q = <<>> THEN 0
    ELSE IF Len(q) = 1 THEN q[1]
    ELSE SumSeq(SubSeq(q, 1, Len(q) \div 2)) + SumSeq(SubSeq(q, Len(q) \div 2 + 1, Len(q)))

RECURSIVE MaxSeq(_)
MaxSeq(q) ==
    IF q = <<>> THEN 0
    ELSE IF Head(q) >= MaxSeq(Tail(q)) THEN Head(q) ELSE MaxSeq(Tail(q))

(* heatmapData.push({ date: day.date, count: day.contributionCount }) *)
HeatmapDay(day) == [date |-> day.date, count |-> day.contributionCount]

HeatmapDays(days) == [k \in DOMAIN days |-> HeatmapDay(days[k])]

RECURSIVE FlattenNewestFirst(_)
FlattenNewestFirst(weeks) ==
    IF weeks = <<>> THEN <<>>
    ELSE FlattenNewestFirst(Tail(weeks)) \o HeatmapDays(Head(weeks).contributionDays.v)

RECURSIVE Flatten(_)
Flatten(weeks) ==
    IF weeks = <<>> THEN <<>>
    ELSE HeatmapDays(Head(weeks).contributionDays.v) \o Flatten(Tail(weeks))

Counts(heatmapData) == [k \in DOMAIN heatmapData |-> heatmapData[k].count]

(* d.count > 0 *)
IsActive(d) == d.count > 0

DaysMissing(week) == week.contributionDays.isNull

(* 1. for (const week of weeks) for (const day of week.contributionDays) *)
HeatmapRaises(raw) == raw.weeks.isNull \/ (\E k \in DOMAIN raw.weeks.v : DaysMissing(raw.weeks.v[k]))

(* 4. raw.pullRequests.nodes.filter *)
PrsRaise(raw) == raw.prNodes.isNull

IsMergedOrNot(pr) == pr.merged \/ ~pr.merged

IsMerged(pr) == pr.merged

(* Math.log, in thousandths rounded down, of the arguments that occur *)
LnMilli ==
    (1 :> 0) @@ (2 :> 693) @@ (3 :> 1098) @@ (4 :> 1386) @@ (15 :> 2708) @@ (101 :> 4615)
    @@ (5001 :> 8517) @@ (5002 :> 8517) @@ (5003 :> 8517)
    @@ (10001 :> 9210) @@ (10002 :> 9210) @@ (10003 :> 9210)
    @@ (15001 :> 9615) @@ (15002 :> 9615) @@ (15003 :> 9616)

Min(a, b) == IF a <= b THEN a ELSE b

computePrWeightFromOne(pr) ==
    Min(1000 + (LnMilli[1 + pr.changedFiles] + LnMilli[1 + pr.additions + pr.deletions]) \div 4,
        3000)

computePrWeightUncapped(pr) ==
    500 + (LnMilli[1 + pr.changedFiles] + LnMilli[1 + pr.additions + pr.deletions]) \div 4

(* weights are in thousandths: 0.5 + 0.25 * ln(1 + changedFiles)
   + 0.25 * ln(1 + additions + deletions), at most 3.0 *)
computePrWeight(pr) ==
    Min(500 + (LnMilli[1 + pr.changedFiles] + LnMilli[1 + pr.additions + pr.deletions]) \div 4,
        3000)

Weights(prs) == [k \in DOMAIN prs |-> computePrWeight(prs[k])]

PR_WEIGHT_AGG_CAP == 120

(* Math.min(mergedPRs.reduce((sum, pr) => sum + computePrWeight(pr), 0), PR_WEIGHT_AGG_CAP) *)
prsMergedWeight(mergedPRs) == Min(SumSeq(Weights(mergedPRs)), PR_WEIGHT_AGG_CAP * 1000)

Additions(prs) == [k \in DOMAIN prs |-> prs[k].additions]

Deletions(prs) == [k \in DOMAIN prs |-> prs[k].deletions]

(* 7. r.defaultBranchRef?.target?.history?.totalCount ?? 0 *)
RepoCommits(r) ==
    IF r.defaultBranchRef.isNull THEN 0
    ELSE IF r.defaultBranchRef.v.target.isNull THEN 0
    ELSE IF r.defaultBranchRef.v.target.v.history.isNull THEN 0
    ELSE r.defaultBranchRef.v.target.v.history.v.totalCount

ReposRaise(raw) == raw.repoNodes.isNull

CommitsOf(repos) == [k \in DOMAIN repos |-> RepoCommits(repos[k])]

Positive(n) == n > 0

WatchersMissing(node) == node.watchers.isNull

(* 10. raw.ownedRepoStars.nodes.reduce(... r.watchers.totalCount ...) *)
StarsRaise(raw) == raw.starNodes.isNull \/ (\E k \in DOMAIN raw.starNodes.v : WatchersMissing(raw.starNodes.v[k]))

Stars(nodes) == [k \in DOMAIN nodes |-> nodes[k].stargazerCount]

Forks(nodes) == [k \in DOMAIN nodes |-> nodes[k].forkCount]

Watchers(nodes) == [k \in DOMAIN nodes |-> nodes[k].watchers.v.totalCount]

topRepoShareOfFirst(repoCommits) ==
    IF SumSeq(repoCommits) > 0 THEN <<Head(repoCommits), SumSeq(repoCommits)>> ELSE <<0, 1>>

(* 8. the fraction <<numerator, denominator>> *)
topRepoShare(repoCommits) ==
    IF SumSeq(repoCommits) > 0 THEN <<MaxSeq(repoCommits), SumSeq(repoCommits)>> ELSE <<0, 1>>

maxCommitsIn10MinAbove30(maxDailyCount) == IF maxDailyCount > 30 THEN maxDailyCount ELSE 0

(* 9. maxDailyCount >= 30 ? maxDailyCount : 0 *)
maxCommitsIn10Min(maxDailyCount) == IF maxDailyCount >= 30 THEN maxDailyCount ELSE 0

NoStats ==
    [commitsTotal |-> 0, activeDays |-> 0, prsMergedCount |-> 0, prsMergedWeight |-> 0,
     linesAdded |-> 0,
     linesDeleted |-> 0, reposContributed |-> 0, topRepoShare |-> <<0, 1>>,
     maxCommitsIn10Min |-> 0, totalStars |-> 0, totalForks |-> 0, totalWatchers |-> 0,
     heatmapData |-> <<>>]

(* the body of buildStatsFromRaw for a payload none of whose steps raises *)
StatsOf(raw) ==
    LET heatmapData == Flatten(raw.weeks.v)
        mergedPRs == SelectSeq(raw.prNodes.v, IsMerged)
        repoCommits == SelectSeq(CommitsOf(raw.repoNodes.v), Positive)
        maxDailyCount == MaxSeq(Counts(heatmapData))
    IN  [commitsTotal |-> raw.totalContributions,
         activeDays |-> Len(SelectSeq(heatmapData, IsActive)),
         prsMergedCount |-> Len(mergedPRs),
         prsMergedWeight |-> prsMergedWeight(mergedPRs),
         linesAdded |-> SumSeq(Additions(mergedPRs)),
         linesDeleted |-> SumSeq(Deletions(mergedPRs)),
         reposContributed |-> Len(repoCommits),
         topRepoShare |-> topRepoShare(repoCommits),
         maxCommitsIn10Min |-> maxCommitsIn10Min(maxDailyCount),
         totalStars |-> SumSeq(Stars(raw.starNodes.v)),
         totalForks |-> SumSeq(Forks(raw.starNodes.v)),
         totalWatchers |-> SumSeq(Watchers(raw.starNodes.v)),
         heatmapData |-> heatmapData]

buildStatsFromRaw(raw) ==
    IF HeatmapRaises(raw) \/ PrsRaise(raw) \/ ReposRaise(raw) \/ StarsRaise(raw)
    THEN [called |-> TRUE, threw |-> TRUE, stats |-> NoStats]
    ELSE [called |-> TRUE, threw |-> FALSE, stats |-> StatsOf(raw)]

(* The payloads buildStatsFromRaw is called with *)

Day(date, count) == [date |-> date, contributionCount |-> count]

Week(days) == [contributionDays |-> days]

Pr(merged, additions, deletions, changedFiles) ==
    [merged |-> merged, additions |-> additions, deletions |-> deletions,
     changedFiles |-> changedFiles]

History(n) == Some([target |-> Some([history |-> Some([totalCount |-> n])])])

NoTarget == Some([target |-> Nul])

NoHistory == Some([target |-> Some([history |-> Nul])])

Repo(ref) == [defaultBranchRef |-> ref]

OwnedRepo(stars, forks, watchers) ==
    [stargazerCount |-> stars, forkCount |-> forks, watchers |-> watchers]

(* calendars: empty ones, days out of date order and a date that comes twice,
   and largest daily counts of 2, 29, 30 and 31 *)
WeekLists ==
    { Nul, Some(<<>>), Some(<< Week(Nul) >>),
      Some(<< Week(Some(<< Day("01-05", 0), Day("01-06", 2) >>)) >>),
      Some(<< Week(Some(<< Day("01-12", 31), Day("01-13", 1) >>)), Week(Some(<<>>)) >>),
      Some(<< Week(Some(<< Day("01-13", 1), Day("01-12", 29) >>)),
              Week(Some(<< Day("01-05", 0), Day("01-13", 1) >>)) >>),
      Some(<< Week(Some(<<>>)), Week(Some(<< Day("01-05", 30) >>)),
              Week(Some(<< Day("01-12", 0), Day("01-05", 30) >>)) >>) }

(* the query asks for pullRequestContributions(first: 100) *)
MaxPrNodes == 100

LargePr(merged) == Pr(merged, 10000, 5000, 100)

(* PR lists: merged and unmerged ones of several sizes, and enough large
   merged ones to stay below, meet and pass PR_WEIGHT_AGG_CAP *)
PrLists ==
    { Nul, Some(<<>>),
      Some(<< Pr(TRUE, 10, 4, 2) >>),
      Some(<< Pr(FALSE, 7, 7, 1) >>),
      Some(<< Pr(TRUE, 10, 4, 2), Pr(FALSE, 7, 7, 1) >>),
      Some(<< LargePr(FALSE), Pr(TRUE, 10, 4, 2), LargePr(FALSE) >>),
      Some(<< Pr(TRUE, 0, 0, 0), LargePr(TRUE), Pr(TRUE, 10, 4, 2) >>),
      Some([k \in 1..(PR_WEIGHT_AGG_CAP \div 3) |-> LargePr(TRUE)]),
      Some([k \in 1..(PR_WEIGHT_AGG_CAP \div 3 + 1) |-> IF k = 2 THEN LargePr(FALSE) ELSE LargePr(TRUE)]),
      Some([k \in 1..MaxPrNodes |-> LargePr(TRUE)]) }

RepoLists ==
    { Nul, Some(<<>>), Some(<< Repo(Nul) >>),
      Some(<< Repo(NoTarget), Repo(History(3)), Repo(NoHistory) >>),
      Some(<< Repo(History(3)), Repo(History(1)) >>),
      Some(<< Repo(History(1)), Repo(History(3)) >>),
      Some(<< Repo(History(0)), Repo(History(2)), Repo(History(2)) >>),
      Some(<< Repo(History(0)), Repo(Nul) >>) }

OwnedRepoLists ==
    { Nul, Some(<<>>), Some(<< OwnedRepo(5, 1, Nul) >>),
      Some(<< OwnedRepo(5, 1, Some([totalCount |-> 2])), OwnedRepo(0, 0, Some([totalCount |-> 1])) >>) }

Raw(total, weeks, prs, repos, owned) ==
    [totalContributions |-> total, weeks |-> weeks, prNodes |-> prs,
     repoNodes |-> repos, starNodes |-> owned]

RawPayloads ==
    { Raw(10, w, p, r, o) : w \in WeekLists, p \in PrLists, r \in RepoLists,
                            o \in OwnedRepoLists }

NotBuilt == [called |-> FALSE, threw |-> FALSE, stats |-> NoStats]

StatsInit ==
    /\ statsInput = Raw(0, Some(<<>>), Some(<<>>), Some(<<>>), Some(<<>>))
    /\ statsResult = NotBuilt

(* one call per behaviour: the function keeps nothing between calls *)
BuildStats(raw) ==
    /\ ~statsResult.called
    /\ statsInput' = raw
    /\ statsResult' = buildStatsFromRaw(raw)

----------------------------------------------------------------------------
(* Stats aggregation, as the claims state it *)

OrEmpty(list) == IF list.isNull THEN Some(<<>>) ELSE list

DaysOrEmpty(week) == Week(OrEmpty(week.contributionDays))

WatchersOrZero(node) ==
    OwnedRepo(node.stargazerCount, node.forkCount,
              IF node.watchers.isNull THEN Some([totalCount |-> 0]) ELSE node.watchers)

(* the payload with every absent or null part replaced by an empty list or a zero *)
Degraded(raw) ==
    Raw(raw.totalContributions,
        Some([k \in DOMAIN OrEmpty(raw.weeks).v |-> DaysOrEmpty(OrEmpty(raw.weeks).v[k])]),
        OrEmpty(raw.prNodes),
        OrEmpty(raw.repoNodes),
        Some([k \in DOMAIN OrEmpty(raw.starNodes).v |-> WatchersOrZero(OrEmpty(raw.starNodes).v[k])]))

HasNullPart(raw) == Degraded(raw) # raw

(* C12: buildStatsFromRaw returns a StatsData for every raw payload and never
   raises; an absent or null sub-field (the weeks, a week's day list, the PR
   node list, a defaultBranchRef or its target or history, the owned-repo node
   list, a node's watchers) counts as empty or zero. *)
C12_NeverRaises ==
    statsResult.called =>
        /\ ~statsResult.threw
        /\ statsResult.stats = StatsOf(Degraded(statsInput))

(* the null parts the code does take as zero: a repository's defaultBranchRef,
   its target and its history *)
C12_NullBranchIsZero ==
    /\ statsResult.called /\ ~statsResult.threw
    /\ Len(statsInput.repoNodes.v) = 3
    /\ statsResult.stats.reposContributed = 1

Built == statsResult.called /\ ~statsResult.threw

(* the sum of f[k] over the indexes k in S *)
SumOver(S, f) == SumSeq([k \in DOMAIN f |-> IF k \in S THEN f[k] ELSE 0])

InputRepos == statsInput.repoNodes.v

(* the repositories with a positive commit count in the window *)
PositiveRepos == { k \in DOMAIN InputRepos : RepoCommits(InputRepos[k]) > 0 }

LargestRepoCount ==
    CHOOSE m \in { RepoCommits(InputRepos[k]) : k \in PositiveRepos } :
        \A k \in PositiveRepos : RepoCommits(InputRepos[k]) <= m

(* C26: topRepoShare lies in [0,1]; it is 0 exactly when no repository has a
   positive commit count and 1 exactly when one repository has; otherwise it
   is the largest positive count divided by the sum of the positive counts;
   reposContributed is the number of repositories with a positive count.
   The share is the fraction <<numerator, denominator>>. *)
C26_TopRepoShare ==
    Built =>
        LET num == statsResult.stats.topRepoShare[1]
            den == statsResult.stats.topRepoShare[2]
        IN  /\ den > 0 /\ 0 <= num /\ num <= den
            /\ num = 0 <=> PositiveRepos = {}
            /\ num = den <=> Cardinality(PositiveRepos) = 1
            /\ PositiveRepos # {} =>
                   num * SumOver(PositiveRepos, CommitsOf(InputRepos)) = LargestRepoCount * den
            /\ statsResult.stats.reposContributed = Cardinality(PositiveRepos)

C26_Witness ==
    /\ Built /\ Cardinality(PositiveRepos) = 2
    /\ RepoCommits(InputRepos[1]) = 1
    /\ statsResult.stats.topRepoShare = <<3, 4>>

InputWeeks == statsInput.weeks.v

DayCounts ==
    UNION { { InputWeeks[w].contributionDays.v[d].contributionCount :
                d \in DOMAIN InputWeeks[w].contributionDays.v } : w \in DOMAIN InputWeeks }

LargestDailyCount ==
    IF DayCounts = {} THEN 0 ELSE CHOOSE m \in DayCounts : \A n \in DayCounts : n <= m

(* C27: maxCommitsIn10Min is 0 when the largest count of a single day is below
   30, an empty calendar included, and is that largest count when it is 30 or
   more; it is never a value from 1 to 29. *)
C27_SpikeThreshold ==
    Built =>
        /\ LargestDailyCount < 30 => statsResult.stats.maxCommitsIn10Min = 0
        /\ LargestDailyCount >= 30 => statsResult.stats.maxCommitsIn10Min = LargestDailyCount
        /\ statsResult.stats.maxCommitsIn10Min \notin 1..29

C27_Witness ==
    Built /\ LargestDailyCount = 30 /\ statsResult.stats.maxCommitsIn10Min = 30

InputPrs == statsInput.prNodes.v

MergedPrs == { k \in DOMAIN InputPrs : InputPrs[k].merged }

(* the payload with its unmerged PRs taken out *)
WithoutUnmerged(raw) ==
    [raw EXCEPT !.prNodes = Some(SelectSeq(raw.prNodes.v, LAMBDA pr : pr.merged))]

(* C28: linesAdded and linesDeleted are the sums of additions and deletions
   over the PRs with merged = true and prsMergedCount is their number; the
   unmerged PRs of the payload, whatever their number and size, change none
   of linesAdded, linesDeleted, prsMergedCount and prsMergedWeight. *)
C28_MergedPrsOnly ==
    Built =>
        /\ statsResult.stats.linesAdded = SumOver(MergedPrs, Additions(InputPrs))
        /\ statsResult.stats.linesDeleted = SumOver(MergedPrs, Deletions(InputPrs))
        /\ statsResult.stats.prsMergedCount = Cardinality(MergedPrs)
        /\ \A f \in {"linesAdded", "linesDeleted", "prsMergedCount", "prsMergedWeight"} :
               statsResult.stats[f] = StatsOf(WithoutUnmerged(statsInput))[f]

C28_Witness ==
    /\ Built /\ Len(InputPrs) = 3 /\ Cardinality(MergedPrs) = 1
    /\ InputPrs[1].additions = 10000 /\ ~InputPrs[1].merged
    /\ statsResult.stats.linesAdded = 10 /\ statsResult.stats.linesDeleted = 4

RECURSIVE DayTotal(_)
DayTotal(weeks) ==
    IF weeks = <<>> THEN 0 ELSE Len(Head(weeks).contributionDays.v) + DayTotal(Tail(weeks))

(* the n-th day of the calendar, counting through the weeks in input order *)
RECURSIVE NthDay(_, _)
NthDay(weeks, n) ==
    IF n <= Len(Head(weeks).contributionDays.v)
    THEN Head(weeks).contributionDays.v[n]
    ELSE NthDay(Tail(weeks), n - Len(Head(weeks).contributionDays.v))

(* C29: heatmapData is the days of all weeks in input order: as many entries
   as there are days, entry i with the date and the count of the i-th day,
   nothing sorted or dropped; activeDays is the number of entries with a
   count above 0. *)
C29_HeatmapInOrder ==
    Built =>
        /\ Len(statsResult.stats.heatmapData) = DayTotal(InputWeeks)
        /\ \A n \in DOMAIN statsResult.stats.heatmapData :
               /\ statsResult.stats.heatmapData[n].date = NthDay(InputWeeks, n).date
               /\ statsResult.stats.heatmapData[n].count = NthDay(InputWeeks, n).contributionCount
        /\ statsResult.stats.activeDays =
               Cardinality({ n \in DOMAIN statsResult.stats.heatmapData :
                               statsResult.stats.heatmapData[n].count > 0 })

C29_Witness ==
    /\ Built /\ Len(statsResult.stats.heatmapData) = 4
    /\ [n \in 1..4 |-> statsResult.stats.heatmapData[n].date] = <<"01-13", "01-12", "01-05", "01-13">>
    /\ statsResult.stats.activeDays = 3

(* C30: each PR weight computePrWeight returns is at most 3.0, and
   prsMergedWeight is at most 120: the sum of the merged PRs' weights when
   that is at most 120, and 120 otherwise.  Weights are in thousandths. *)
C30_WeightCaps ==
    Built =>
        /\ \A k \in DOMAIN InputPrs : computePrWeight(InputPrs[k]) <= 3000
        /\ statsResult.stats.prsMergedWeight <= 120000
        /\ SumOver(MergedPrs, Weights(InputPrs)) <= 120000 =>
               statsResult.stats.prsMergedWeight = SumOver(MergedPrs, Weights(InputPrs))
        /\ SumOver(MergedPrs, Weights(InputPrs)) > 120000 =>
               statsResult.stats.prsMergedWeight = 120000

C30_Witness ==
    /\ Built /\ Len(InputPrs) = MaxPrNodes /\ Cardinality(MergedPrs) = MaxPrNodes
    /\ computePrWeightUncapped(InputPrs[1]) > 3000
    /\ statsResult.stats.prsMergedWeight = 120000

----------------------------------------------------------------------------
(* The merge command: main, resolveToken, fetchEmuStats,
   uploadSupplementalStats and sendTelemetry *)

DEFAULT_SERVER == <<"https:", "/", "/", "chapa.thecreativetoken.com">>

(* an environment value: lead and trail count the white space around core *)
Padded(core, lead, trail) == [set |-> TRUE, lead |-> lead, core |-> core, trail |-> trail]

Unset == [set |-> FALSE, lead |-> 0, core |-> "", trail |-> 0]

(* process.env[envVar]?.trim() *)
TrimmedEnv(e) == IF e.set THEN e.core ELSE Undefined

resolveTokenEnvFirst(flag, e) ==
    IF Truthy(TrimmedEnv(e)) THEN TrimmedEnv(e)
    ELSE IF Truthy(flag) THEN flag
    ELSE Null

resolveToken(flag, e) ==
    IF Truthy(flag) THEN flag
    ELSE IF Truthy(TrimmedEnv(e)) THEN TrimmedEnv(e)
    ELSE Null

(* a ?? b *)
Coalesce(a, b) == IF a \in {Undefined, Null} THEN b ELSE a

(* config?.k of what loadConfig returned *)
ConfigProp(c, k) == IF c.present THEN c[k] ELSE Undefined

(* Events *)

Out(stream, text) ==
    [ev |-> "out", to |-> stream, url |-> <<>>, auth |-> "", target |-> "", source |-> "",
     text |-> text, success |-> FALSE, category |-> "", stats |-> NoStats]

Request(to, url, auth, target, source, success, category, stats) ==
    [ev |-> "request", to |-> to, url |-> url, auth |-> auth, target |-> target,
     source |-> source, text |-> <<>>, success |-> success, category |-> category,
     stats |-> stats]

(* log.info: nothing with --json *)
Info(json, text) == IF json THEN <<>> ELSE << Out("stdout", text) >>

(* log.error *)
ErrorLine(text) == << Out("stderr", text) >>

(* fetchEmuStats.  What the GitHub request comes back with: *)

GhThrow == [kind |-> "throw", status |-> 0, jsonOk |-> FALSE, errors |-> FALSE, data |-> Nul]

GhHttp(status, jsonOk, errors, data) ==
    [kind |-> "http", status |-> status, jsonOk |-> jsonOk, errors |-> errors, data |-> data]

NoGh == [kind |-> "none", status |-> 0, jsonOk |-> FALSE, errors |-> FALSE, data |-> Nul]

Contributions(total, weeks, prNodes) ==
    [totalContributions |-> total, weeks |-> weeks, prNodes |-> prNodes]

GhUser(cc, repoNodes, ownedRepos) ==
    [contributionsCollection |-> cc, repoNodes |-> repoNodes, ownedRepos |-> ownedRepos]

PrNode(pr) == Some([pullRequest |-> pr])

GhOk(g) == g.status \in 200..299

(* n != null && n.pullRequest != null *)
HasPullRequest(n) == ~n.isNull /\ ~n.v.pullRequest.isNull

PullRequests(nodes) ==
    [k \in DOMAIN SelectSeq(nodes, HasPullRequest) |->
        SelectSeq(nodes, HasPullRequest)[k].v.pullRequest.v]

NotNull(n) == ~n.isNull

(* user.ownedRepos?.nodes ?? [] *)
OwnedNodes(user) == IF user.ownedRepos.isNull THEN <<>> ELSE user.ownedRepos.v

(* .filter(n != null).map(n => ({ ..., watchers: { totalCount: n.watchers.totalCount } })) *)
OwnedRepoStars(user) ==
    [k \in DOMAIN SelectSeq(OwnedNodes(user), NotNull) |->
        SelectSeq(OwnedNodes(user), NotNull)[k].v]

(* the property reads that raise a TypeError while the payload is normalised *)
NormaliseRaises(user) ==
    \/ user.contributionsCollection.isNull
    \/ user.contributionsCollection.v.prNodes.isNull
    \/ \E k \in DOMAIN OwnedRepoStars(user) : OwnedRepoStars(user)[k].watchers.isNull

RawOf(user) ==
    Raw(user.contributionsCollection.v.totalContributions,
        user.contributionsCollection.v.weeks,
        Some(PullRequests(user.contributionsCollection.v.prNodes.v)),
        user.repoNodes,
        Some(OwnedRepoStars(user)))

Fetched(isNull, stats, built, lines) ==
    [isNull |-> isNull, stats |-> stats, built |-> built, lines |-> lines]

GraphQLErrorsLine(g) ==
    IF g.errors THEN ErrorLine(<<"[cli] GraphQL errors for ", "<login>">>) ELSE <<>>

FetchErrorLine == ErrorLine(<<"[cli] fetch error: ", "<detail>">>)

fetchEmuStats(g) ==
    IF g.kind = "throw" THEN Fetched(TRUE, NoStats, FALSE, FetchErrorLine)
    ELSE IF ~GhOk(g) THEN Fetched(TRUE, NoStats, FALSE, ErrorLine(<<"[cli] GraphQL HTTP ", "<status>">>))
    ELSE IF ~g.jsonOk THEN Fetched(TRUE, NoStats, FALSE, FetchErrorLine)
    ELSE IF g.data.isNull \/ g.data.v.user.isNull
    THEN Fetched(TRUE, NoStats, FALSE, GraphQLErrorsLine(g))
    ELSE IF NormaliseRaises(g.data.v.user.v)
    THEN Fetched(TRUE, NoStats, FALSE, GraphQLErrorsLine(g) \o FetchErrorLine)
    ELSE IF buildStatsFromRaw(RawOf(g.data.v.user.v)).threw
    THEN Fetched(TRUE, NoStats, TRUE, GraphQLErrorsLine(g) \o FetchErrorLine)
    ELSE Fetched(FALSE, buildStatsFromRaw(RawOf(g.data.v.user.v)).stats, TRUE,
                 GraphQLErrorsLine(g))

(* The responses of GitHub *)

FullUser ==
    GhUser(Some(Contributions(10, Some(<< Week(Some(<< Day("01-05", 0), Day("01-06", 2) >>)) >>),
                              Some(<< PrNode(Some(Pr(TRUE, 10, 4, 2))), Nul, PrNode(Nul) >>))),
           Some(<< Repo(History(3)), Repo(Nul) >>),
           Some(<< Some(OwnedRepo(5, 1, Some([totalCount |-> 2]))), Nul >>))

EmptyUser ==
    GhUser(Some(Contributions(10, Some(<<>>), Some(<<>>))), Some(<<>>), Nul)

GhUsers ==
    { FullUser, EmptyUser,
      GhUser(Nul, Some(<<>>), Nul),
      GhUser(Some(Contributions(10, Nul, Some(<<>>))), Some(<<>>), Some(<<>>)),
      GhUser(Some(Contributions(10, Some(<<>>), Some(<<>>))), Some(<<>>),
             Some(<< Some(OwnedRepo(5, 1, Nul)) >>)) }

GhData == { Nul, Some([user |-> Nul]) } \cup { Some([user |-> Some(u)]) : u \in GhUsers }

GhOutcomes ==
    { GhThrow, GhHttp(401, TRUE, FALSE, Nul), GhHttp(502, FALSE, FALSE, Nul),
      GhHttp(200, FALSE, FALSE, Nul) }
        \cup { GhHttp(200, TRUE, e, d) : e \in BOOLEAN, d \in GhData }

(* uploadSupplementalStats.  What the upload request comes back with: *)

UpThrow(message) == [kind |-> "throw", status |-> 0, error |-> message]

UpHttp(status, error) == [kind |-> "http", status |-> status, error |-> error]

NoUp == [kind |-> "none", status |-> 0, error |-> Undefined]

(* body.error of res.json().catch(() => ({})): Undefined for a body that is not
   JSON or has no error member *)
UploadOutcomes ==
    { UpThrow("connect ECONNREFUSED"), UpHttp(200, Undefined), UpHttp(201, Undefined),
      UpHttp(401, "Invalid token"), UpHttp(500, Undefined), UpHttp(503, "Unavailable") }

Uploaded(success, error) == [threw |-> FALSE, success |-> success, error |-> error]

uploadSupplementalStats(u) ==
    IF u.kind = "throw" THEN Uploaded(FALSE, <<"Upload failed: ", u.error>>)
    ELSE IF u.status \notin 200..299
    THEN Uploaded(FALSE, <<"Server returned ", ToString(u.status), ": ",
                           Coalesce(u.error, "Unknown error")>>)
    ELSE Uploaded(TRUE, <<>>)

(* classifyError *)

(* the characters of the texts and numbers that occur in failure messages *)
Spelling ==
       ("Upload failed: " :> <<"U", "p", "l", "o", "a", "d", " ", "f", "a", "i", "l", "e",
           "d", ":", " ">>)
    @@ ("Server returned " :> <<"S", "e", "r", "v", "e", "r", " ", "r", "e", "t", "u", "r",
           "n", "e", "d", " ">>)
    @@ (": " :> <<":", " ">>)
    @@ ("Unknown error" :> <<"U", "n", "k", "n", "o", "w", "n", " ", "e", "r", "r", "o",
           "r">>)
    @@ ("connect ECONNREFUSED" :> <<"c", "o", "n", "n", "e", "c", "t", " ", "E", "C", "O",
           "N", "N", "R", "E", "F", "U", "S", "E", "D">>)
    @@ ("Invalid token" :> <<"I", "n", "v", "a", "l", "i", "d", " ", "t", "o", "k", "e",
           "n">>)
    @@ ("Unavailable" :> <<"U", "n", "a", "v", "a", "i", "l", "a", "b", "l", "e">>)
    @@ ("connect ECONNREFUSED 127.0.0.1:4010" :> <<"c", "o", "n", "n", "e", "c", "t", " ",
           "E", "C", "O", "N", "N", "R", "E", "F", "U", "S", "E", "D", " ", "1", "2",
           "7", ".", "0", ".", "0", ".", "1", ":", "4", "0", "1", "0">>)
    @@ ("getaddrinfo ENOTFOUND api.example.com" :> <<"g", "e", "t", "a", "d", "d", "r", "i",
           "n", "f", "o", " ", "E", "N", "O", "T", "F", "O", "U", "N", "D", " ", "a",
           "p", "i", ".", "e", "x", "a", "m", "p", "l", "e", ".", "c", "o", "m">>)
    @@ ("fetch failed" :> <<"f", "e", "t", "c", "h", " ", "f", "a", "i", "l", "e", "d">>)
    @@ ("upstream sign-in returned 401" :> <<"u", "p", "s", "t", "r", "e", "a", "m", " ",
           "s", "i", "g", "n", "-", "i", "n", " ", "r", "e", "t", "u", "r", "n", "e",
           "d", " ", "4", "0", "1">>)
    @@ ("GraphQL backend down" :> <<"G", "r", "a", "p", "h", "Q", "L", " ", "b", "a", "c",
           "k", "e", "n", "d", " ", "d", "o", "w", "n">>)
    @@ ("retry after 500 ms" :> <<"r", "e", "t", "r", "y", " ", "a", "f", "t", "e", "r",
           " ", "5", "0", "0", " ", "m", "s">>)
    @@ ("Not found" :> <<"N", "o", "t", " ", "f", "o", "u", "n", "d">>)
    @@ ("Forbidden" :> <<"F", "o", "r", "b", "i", "d", "d", "e", "n">>)
    @@ ("422" :> <<"4", "2", "2">>)
    @@ ("401" :> <<"4", "0", "1">>)
    @@ ("403" :> <<"4", "0", "3">>)
    @@ ("404" :> <<"4", "0", "4">>)
    @@ ("429" :> <<"4", "2", "9">>)
    @@ ("500" :> <<"5", "0", "0">>)
    @@ ("502" :> <<"5", "0", "2">>)
    @@ ("503" :> <<"5", "0", "3">>)

Digit == {"0", "1", "2", "3", "4", "5", "6", "7", "8", "9"}

(* the characters of a message made of such texts *)
RECURSIVE Chars(_)
Chars(message) ==
    IF message = <<>> THEN <<>>
    ELSE Spelling[Head(message)] \o Chars(Tail(message))

(* RegExp.test: the pattern, a sequence of character classes, matches
   somewhere in the text *)
Test(pattern, text) ==
    \E k \in 1..(Len(text) - Len(pattern) + 1) :
        \A j \in DOMAIN pattern : text[k + j - 1] \in pattern[j]

(* /40[13]/ *)
AuthPattern == << {"4"}, {"0"}, {"1", "3"} >>

(* /ECONNREFUSED|ETIMEDOUT|ENOTFOUND|DNS/i *)
NetworkPatterns ==
    { <<{"e", "E"}, {"c", "C"}, {"o", "O"}, {"n", "N"}, {"n", "N"}, {"r", "R"}, {"e", "E"},
        {"f", "F"}, {"u", "U"}, {"s", "S"}, {"e", "E"}, {"d", "D"}>>,
      <<{"e", "E"}, {"t", "T"}, {"i", "I"}, {"m", "M"}, {"e", "E"}, {"d", "D"}, {"o", "O"},
        {"u", "U"}, {"t", "T"}>>,
      <<{"e", "E"}, {"n", "N"}, {"o", "O"}, {"t", "T"}, {"f", "F"}, {"o", "O"}, {"u", "U"},
        {"n", "N"}, {"d", "D"}>>,
      <<{"d", "D"}, {"n", "N"}, {"s", "S"}>> }

(* /graphql/i *)
GraphqlPattern ==
    <<{"g", "G"}, {"r", "R"}, {"a", "A"}, {"p", "P"}, {"h", "H"}, {"q", "Q"}, {"l", "L"}>>

(* /5\d{2}/ *)
ServerPattern == << {"5"}, Digit, Digit >>

classifyError(message) ==
    IF Test(AuthPattern, Chars(message)) THEN "auth"
    ELSE IF \E p \in NetworkPatterns : Test(p, Chars(message)) THEN "network"
    ELSE IF Test(GraphqlPattern, Chars(message)) THEN "graphql"
    ELSE IF Test(ServerPattern, Chars(message)) THEN "server"
    ELSE "unknown"

(* sendTelemetry.  What the telemetry request comes back with: *)

TelemetryOutcomes == {"ok", "non-2xx", "throw", "timeout"}

(* await fetch(...) raises: a network error, or the AbortSignal.timeout(5000) *)
TelemetryFetchRaises(t) == t \in {"throw", "timeout"}

sendTelemetryNoCatch(t) == [rejected |-> TelemetryFetchRaises(t)]

(* the catch block swallows what the try block raises *)
sendTelemetry(t) == [rejected |-> IF TelemetryFetchRaises(t) THEN FALSE ELSE FALSE]

(* main, the merge command *)

GITHUB_GRAPHQL == <<"https:", "/", "/", "api.github.com", "/", "graphql">>

(* cli.ts lines 37 and 52: args.server is the --server value, or the default
   when the option was not given *)
ParsedServer(serverFlag) == IF serverFlag.isNull THEN DEFAULT_SERVER ELSE serverFlag.v

(* serverFlag is the value given with --server, Nul when it was not given *)
Invocation(emuHandle, handle, emuToken, env, token, serverFlag, json) ==
    [emuHandle |-> emuHandle, handle |-> handle, emuToken |-> emuToken,
     GITHUB_EMU_TOKEN |-> env, token |-> token, serverFlag |-> serverFlag,
     server |-> ParsedServer(serverFlag), json |-> json]

(* lines 94-118 and 134: what main resolves from the arguments, the
   environment and the loaded config *)
Resolve(a, cfg) ==
    [handle |-> Coalesce(a.handle, ConfigProp(cfg, "handle")),
     emuHandle |-> a.emuHandle,
     emuToken |-> resolveToken(a.emuToken, a.GITHUB_EMU_TOKEN),
     authToken |-> Coalesce(a.token, ConfigProp(cfg, "token")),
     serverUrl |-> IF a.server # DEFAULT_SERVER THEN a.server
                   ELSE IF cfg.present THEN cfg.server ELSE a.server,
     emuStats |-> Nul,
     result |-> Nul]

MissingInputNoAuthCheck(l) ==
    IF ~Truthy(l.emuHandle) THEN "--emu-handle is required."
    ELSE IF ~Truthy(l.handle) THEN "No personal handle found."
    ELSE IF ~Truthy(l.emuToken) THEN "EMU token required."
    ELSE ""

(* the first of the four checks that fails, "" when none does *)
MissingInput(l) ==
    IF ~Truthy(l.emuHandle) THEN "--emu-handle is required."
    ELSE IF ~Truthy(l.handle) THEN "No personal handle found."
    ELSE IF ~Truthy(l.emuToken) THEN "EMU token required."
    ELSE IF ~Truthy(l.authToken) THEN "Not authenticated."
    ELSE ""

GitHubRequest(l) ==
    Request("github", GITHUB_GRAPHQL, l.emuToken, "", l.emuHandle, FALSE, "", NoStats)

UploadRequestWithEmuToken(l) ==
    Request("chapa", StripTrailingSlashes(l.serverUrl) \o <<"/", "api", "/", "supplemental">>,
            l.emuToken, l.handle, l.emuHandle, FALSE, "", l.emuStats.v)

UploadRequest(l) ==
    Request("chapa", StripTrailingSlashes(l.serverUrl) \o <<"/", "api", "/", "supplemental">>,
            l.authToken, l.handle, l.emuHandle, FALSE, "", l.emuStats.v)

(* the five counters of the telemetry payload; reviewsSubmittedCount is not
   among the statistics kept here *)
TelemetryStats(stats) ==
    [NoStats EXCEPT !.commitsTotal = stats.commitsTotal,
                    !.reposContributed = stats.reposContributed,
                    !.prsMergedCount = stats.prsMergedCount,
                    !.activeDays = stats.activeDays]

TelemetryRequest(l, success, category) ==
    Request("chapa", StripTrailingSlashes(l.serverUrl) \o <<"/", "api", "/", "telemetry">>,
            "", l.handle, l.emuHandle, success, category, TelemetryStats(l.emuStats.v))

(* lines 97-123: the checks, then fetchEmuStats up to its await *)
StartEvents(a, l) ==
    IF MissingInput(l) # ""
    THEN ErrorLine(<<"Error: ", MissingInput(l)>>)
    ELSE Info(a.json, <<"Fetching stats for EMU account: ", l.emuHandle>>)
             \o << GitHubRequest(l) >>

(* lines 126-137: fetchEmuStats has returned f; uploadSupplementalStats up to
   its await *)
FetchedEvents(a, l, f) ==
    f.lines \o
    (IF f.isNull
     THEN ErrorLine(<<"Error: ", "Failed to fetch EMU stats.">>)
     ELSE Info(a.json, <<"<stats summary>">>)
              \o Info(a.json, <<"Uploading supplemental stats to ">> \o l.serverUrl)
              \o << UploadRequest([l EXCEPT !.emuStats = Some(f.stats)]) >>)

ResultDocument(l, r) ==
    Out("stdout", <<"{", "success", IF r.success THEN "true" ELSE "false",
                    "targetHandle", l.handle, "sourceHandle", l.emuHandle>>
                      \o r.error \o <<"}">>)

(* lines 148-225: uploadSupplementalStats has returned r; the result is
   written, then sendTelemetry runs up to its await *)
UploadedEvents(a, l, r) ==
    IF ~r.success
    THEN (IF a.json THEN << ResultDocument(l, r) >> ELSE ErrorLine(<<"Error: ">> \o r.error))
             \o << TelemetryRequest(l, FALSE, classifyError(r.error)) >>
    ELSE (IF a.json THEN << ResultDocument(l, r) >>
          ELSE Info(a.json, <<"Success! Stats merged for ", l.emuHandle, " -> ", l.handle>>))
             \o << TelemetryRequest(l, TRUE, "") >>

(* The same invocation with the other EMU token *)

OtherToken(t) ==
    IF t = "emu-flag-tok" THEN "emu-flag-tok-2"
    ELSE IF t = "emu-env-tok" THEN "emu-env-tok-2"
    ELSE t

Twin(a) ==
    [a EXCEPT !.emuToken = OtherToken(@), !.GITHUB_EMU_TOKEN.core = OtherToken(@)]

NoLocals ==
    [handle |-> Undefined, emuHandle |-> Undefined, emuToken |-> Null,
     authToken |-> Undefined, serverUrl |-> DEFAULT_SERVER, emuStats |-> Nul,
     result |-> Nul]

NoInvocation ==
    Invocation(Undefined, Undefined, Undefined, Unset, Undefined, Nul, FALSE)

MergeInit ==
    /\ mpc = "start"
    /\ inv = NoInvocation
    /\ locals = NoLocals
    /\ events = <<>>
    /\ twinEvents = <<>>
    /\ gh = NoGh
    /\ up = NoUp
    /\ tel = "none"
    /\ mExit = <<>>

(* main from loadConfig() to the await of fetchEmuStats, or to process.exit(1) *)
MergeStart(a) ==
    /\ mpc = "start"
    /\ inv' = a
    /\ locals' = Resolve(a, config)
    /\ events' = StartEvents(a, Resolve(a, config))
    /\ twinEvents' = StartEvents(Twin(a), Resolve(Twin(a), config))
    /\ IF MissingInput(Resolve(a, config)) # ""
       THEN mpc' = "exited" /\ mExit' = <<1>>
       ELSE mpc' = "fetching" /\ mExit' = <<>>
    /\ UNCHANGED <<gh, up, tel, config>>

(* the GitHub request settles: the rest of fetchEmuStats, then main to the
   await of uploadSupplementalStats, or to process.exit(1) *)
FetchSettles(g) ==
    /\ mpc = "fetching"
    /\ gh' = g
    /\ locals' = [locals EXCEPT !.emuStats = IF fetchEmuStats(g).isNull THEN Nul
                                             ELSE Some(fetchEmuStats(g).stats)]
    /\ events' = events \o FetchedEvents(inv, locals, fetchEmuStats(g))
    /\ twinEvents' = twinEvents
           \o FetchedEvents(Twin(inv), Resolve(Twin(inv), config), fetchEmuStats(g))
    /\ statsInput' = IF fetchEmuStats(g).built THEN RawOf(g.data.v.user.v) ELSE statsInput
    /\ statsResult' = IF fetchEmuStats(g).built
                      THEN buildStatsFromRaw(RawOf(g.data.v.user.v))
                      ELSE statsResult
    /\ IF fetchEmuStats(g).isNull
       THEN mpc' = "exited" /\ mExit' = <<1>>
       ELSE mpc' = "uploading" /\ mExit' = <<>>
    /\ UNCHANGED <<inv, up, tel, config>>

UploadSettlesRetrying(u) ==
    /\ mpc = "uploading"
    /\ up' = u
    /\ IF uploadSupplementalStats(u).success
       THEN /\ events' = events \o UploadedEvents(inv, locals, uploadSupplementalStats(u))
            /\ mpc' = "telemetry"
       ELSE /\ events' = events \o << UploadRequest(locals) >>
            /\ mpc' = "uploading"
    /\ locals' = [locals EXCEPT !.result = Some(uploadSupplementalStats(u))]
    /\ UNCHANGED <<inv, twinEvents, gh, tel, config, mExit>>

(* the upload request settles: the rest of uploadSupplementalStats, then main
   to its end, or to process.exit(1) *)
UploadSettles(u) ==
    /\ mpc = "uploading"
    /\ up' = u
    /\ events' = events \o UploadedEvents(inv, locals, uploadSupplementalStats(u))
    /\ twinEvents' = twinEvents
           \o UploadedEvents(Twin(inv),
                             [Resolve(Twin(inv), config) EXCEPT !.emuStats = locals.emuStats],
                             uploadSupplementalStats(u))
    /\ locals' = [locals EXCEPT !.result = Some(uploadSupplementalStats(u))]
    /\ IF uploadSupplementalStats(u).success
       THEN mpc' = "telemetry" /\ mExit' = <<>>
       ELSE mpc' = "exited" /\ mExit' = <<1>>
    /\ UNCHANGED <<inv, gh, tel, config>>

UnhandledRejection == Out("stderr", <<"Uncaught">>)

(* main has returned; the telemetry request settles and the process ends *)
TelemetrySettles(t) ==
    /\ mpc = "telemetry"
    /\ tel' = t
    /\ mpc' = "exited"
    /\ IF sendTelemetry(t).rejected
       THEN events' = Append(events, UnhandledRejection) /\ mExit' = <<1>>
       ELSE events' = events /\ mExit' = <<0>>
    /\ UNCHANGED <<inv, locals, twinEvents, gh, up, config>>

(* What merge is invoked with *)

Invocations ==
    { Invocation(eh, h, et, env, t, s, j) :
        eh \in {Undefined, "corp_user"},
        h \in {Undefined, "juan294"},
        et \in {Undefined, "emu-flag-tok"},
        env \in {Unset, Padded("", 2, 0), Padded("emu-env-tok", 1, 1)},
        t \in {Undefined, "auth-tok"},
        s \in {Nul, Some(DEFAULT_SERVER), Some(<<"https:", "/", "/", "custom.example", "/">>)},
        j \in BOOLEAN }

SavedRecord ==
    [present |-> TRUE, token |-> "cfg-tok", handle |-> "cfg-handle",
     server |-> <<"https:", "/", "/", "example.com">>]

(* what the credentials file holds when the process starts *)
StoredConfigs == { NoConfig, SavedRecord }

----------------------------------------------------------------------------
(* The merge command, as the claims state it *)

EndsWith(url, word) == url # <<>> /\ url[Len(url)] = word

IsUpload(e) == e.ev = "request" /\ e.to = "chapa" /\ EndsWith(e.url, "supplemental")

IsTelemetry(e) == e.ev = "request" /\ e.to = "chapa" /\ EndsWith(e.url, "telemetry")

IsGitHub(e) == e.ev = "request" /\ e.to = "github"

ToChapa(e) == e.ev = "request" /\ e.to = "chapa"

IsOutput(e) == e.ev = "out"

MergeStarted == mpc # "start"

MergeEnded == mpc = "exited"

GhSettled == gh.kind # "none"

UpSettled == up.kind # "none"

(* a transport or semantic error of the GraphQL request *)
GhErrorResponse(g) ==
    \/ g.kind = "throw"
    \/ g.status \notin 200..299
    \/ g.errors
    \/ g.data.isNull
    \/ g.data.v.user.isNull

(* C11: on a thrown fetch, a non-2xx status, a response carrying GraphQL errors
   or a missing user, fetchEmuStats returns null, buildStatsFromRaw is not
   invoked and nothing is uploaded. *)
C11_ErrorMeansNoData ==
    (GhSettled /\ GhErrorResponse(gh)) =>
        /\ locals.emuStats.isNull
        /\ ~statsResult.called
        /\ SelectSeq(events, IsUpload) = <<>>
        /\ MergeEnded /\ mExit = <<1>>

(* the error responses for which the code does return null *)
C11_NullOnTransportError ==
    /\ GhSettled /\ gh.status = 401
    /\ locals.emuStats.isNull /\ ~statsResult.called /\ mExit = <<1>>

FailedUpload(u) == u.kind = "throw" \/ u.status \notin 200..299

(* C13: one call of uploadSupplementalStats is one POST, never repeated; it
   does not throw, and returns success: false with an error for a non-2xx
   status or a thrown fetch error; a merge calls it at most once and a failed
   upload ends the merge with exit code 1. *)
C13_OneUploadNoRetry ==
    /\ Len(SelectSeq(events, IsUpload)) <= 1
    /\ mpc = "uploading" => Len(SelectSeq(events, IsUpload)) = 1 /\ ~UpSettled
    /\ UpSettled =>
        /\ Len(SelectSeq(events, IsUpload)) = 1
        /\ ~locals.result.isNull /\ ~locals.result.v.threw
        /\ locals.result.v.success <=> ~FailedUpload(up)
        /\ FailedUpload(up) =>
               /\ locals.result.v.error # <<>>
               /\ MergeEnded /\ mExit = <<1>>

C13_Witness ==
    /\ UpSettled /\ up.kind = "throw" /\ MergeEnded /\ mExit = <<1>>
    /\ Len(SelectSeq(events, IsUpload)) = 1
    /\ ~locals.result.v.success

(* C14: every merge that has ended, in success or in failure, has sent one
   telemetry POST to <server>/api/telemetry; stated for the merges that got as
   far as the GitHub request. *)
C14_TelemetryAlwaysSent ==
    (GhSettled /\ MergeEnded) => Len(SelectSeq(events, IsTelemetry)) = 1

(* the failure path that does send telemetry: a failed upload *)
C14_SentOnUploadFailure ==
    /\ MergeEnded /\ UpSettled /\ FailedUpload(up)
    /\ Len(SelectSeq(events, IsTelemetry)) = 1
    /\ ~SelectSeq(events, IsTelemetry)[1].success

TelSettled == tel # "none"

SuccessOutput(e) ==
    /\ IsOutput(e) /\ e.to = "stdout"
    /\ \/ e.text[1] = "Success! Stats merged for "
       \/ e.text[1] = "{" /\ e.text[2] = "success" /\ e.text[3] = "true"

(* C15: whatever the telemetry request does, the exit code is the one the
   upload result decides and nothing is written after the result; the promise
   of sendTelemetry is never rejected; on success the "Success!" output (the
   JSON document with --json) comes before the telemetry request. *)
C15_TelemetryCannotMatter ==
    /\ (MergeEnded /\ UpSettled) => mExit = (IF FailedUpload(up) THEN <<1>> ELSE <<0>>)
    /\ UpSettled =>
           /\ IsTelemetry(events[Len(events)])
           /\ IsOutput(events[Len(events) - 1])
           /\ Len(SelectSeq(events, IsTelemetry)) = 1
    /\ (UpSettled /\ ~FailedUpload(up)) => SuccessOutput(events[Len(events) - 1])
    /\ TelSettled => mExit = <<0>>

C15_Witness ==
    /\ tel = "timeout" /\ MergeEnded /\ mExit = <<0>> /\ ~inv.json
    /\ SuccessOutput(events[Len(events) - 1])

EmuTokens == {"emu-flag-tok", "emu-env-tok", "emu-flag-tok-2", "emu-env-tok-2"}

Carries(e, s) ==
    \/ s \in {e.auth, e.target, e.source, e.category}
    \/ \E k \in DOMAIN e.text : e.text[k] = s
    \/ \E k \in DOMAIN e.url : e.url[k] = s

(* C16: the EMU token goes to GitHub only: no request to the Chapa server
   carries it, the stored record does not hold it, and the invocation that
   differs only in the EMU token sends the same requests to Chapa and leaves
   the same record. *)
C16_EmuTokenStaysLocal ==
    /\ \A k \in DOMAIN events :
           /\ ToChapa(events[k]) => \A s \in EmuTokens : ~Carries(events[k], s)
           /\ IsGitHub(events[k]) => events[k].auth = locals.emuToken
    /\ SelectSeq(events, ToChapa) = SelectSeq(twinEvents, ToChapa)
    /\ config \in StoredConfigs
    /\ config.present => config.token \notin EmuTokens

C16_Witness ==
    /\ MergeEnded /\ TelSettled
    /\ locals.emuToken = "emu-env-tok"
    /\ Len(SelectSeq(events, ToChapa)) = 2
    /\ SelectSeq(events, IsGitHub) # SelectSeq(twinEvents, IsGitHub)
    /\ config.present

UploadUrl(server) == StripTrailingSlashes(server) \o <<"/", "api", "/", "supplemental">>

(* the server the claim names: the --server value when the option was given,
   else the saved one, else the default *)
ServerByPrecedence ==
    IF ~inv.serverFlag.isNull THEN inv.serverFlag.v
    ELSE IF config.present THEN config.server
    ELSE DEFAULT_SERVER

FlagOrSaved(flag, k) == IF flag # Undefined THEN flag ELSE config[k]

(* C25: a merge uploads to the --server value whenever --server was given,
   to the saved server only when it was not given, and to the default only
   when there is no saved record either; the personal handle and the auth
   token of the upload are the flag values when given and the saved ones
   otherwise. *)
C25_FlagsOverConfig ==
    \A k \in DOMAIN events :
        IsUpload(events[k]) =>
            /\ events[k].url = UploadUrl(ServerByPrecedence)
            /\ events[k].target = FlagOrSaved(inv.handle, "handle")
            /\ events[k].auth = FlagOrSaved(inv.token, "token")

(* a --server value other than the default does win over the saved server *)
C25_CustomServerWins ==
    /\ config = SavedRecord
    /\ inv.serverFlag = Some(<<"https:", "/", "/", "custom.example", "/">>)
    /\ inv.handle = Undefined /\ inv.token = "auth-tok"
    /\ \E k \in DOMAIN events :
           /\ IsUpload(events[k])
           /\ events[k].url = <<"https:", "/", "/", "custom.example", "/", "api", "/", "supplemental">>
           /\ events[k].target = "cfg-handle" /\ events[k].auth = "auth-tok"

----------------------------------------------------------------------------
(* main, the dispatch of the commands *)

LogoutRewriting ==
    /\ config' = [present |-> TRUE, token |-> "", handle |-> "", server |-> <<>>]
    /\ events' = << Out("stdout", <<"Logged out.">>) >>
    /\ mpc' = "exited"
    /\ mExit' = <<0>>
    /\ UNCHANGED <<pc, verbose, insecure, serverUrl, baseUrl, i, serverErrorLogged,
                   pollCount, resp, out, saveCount, exitCode, state, settled, allPending,
                   allPendingBefore, nonOkSeen, diagnosed, waitedMs>>
    /\ UNCHANGED <<inv, locals, twinEvents, gh, up, tel>>

(* lines 71-79: const removed = deleteConfig(), one of the two messages, return *)
Logout ==
    /\ config' = NoConfig
    /\ events' = << Out("stdout", IF config.present
                                  THEN <<"Logged out.">>
                                  ELSE <<"Not logged in (no credentials found).">>) >>
    /\ mpc' = "exited"
    /\ mExit' = <<0>>
    /\ UNCHANGED <<pc, verbose, insecure, serverUrl, baseUrl, i, serverErrorLogged,
                   pollCount, resp, out, saveCount, exitCode, state, settled, allPending,
                   allPendingBefore, nonOkSeen, diagnosed, waitedMs>>
    /\ UNCHANGED <<inv, locals, twinEvents, gh, up, tel>>

(* main before the command runs *)

Options(version, help, json, v, ins) ==
    [version |-> version, help |-> help, json |-> json, verbose |-> v, insecure |-> ins]

NoOptions == Options(FALSE, FALSE, FALSE, FALSE, FALSE)

CliOptions ==
    { Options(ver, h, j, v, ins) :
        ver \in BOOLEAN, h \in BOOLEAN, j \in BOOLEAN, v \in BOOLEAN, ins \in BOOLEAN }

(* the values of args.command *)
Commands == {"login", "logout", "merge", Null}

(* NODE_TLS_REJECT_UNAUTHORIZED when the process starts: not set, or set by the user *)
TlsSettings == {Undefined, "1"}

Ran(lines, exit, env) == [lines |-> lines, exit |-> exit, env |-> env]

InsecureWarning ==
    << Out("stderr", <<"TLS certificate verification disabled (--insecure).">>),
       Out("stderr", <<"Use only on corporate networks with TLS interception.">>) >>

StartupBypassFirst(a, env) ==
    IF a.version THEN Ran(<< Out("stdout", <<"VERSION">>) >>, <<0>>, env)
    ELSE IF a.help THEN Ran(<< Out("stdout", <<"HELP_TEXT">>) >>, <<0>>, env)
    ELSE IF a.insecure /\ a.json /\ a.verbose
    THEN Ran(InsecureWarning
                 \o ErrorLine(<<"Error: --json and --verbose cannot be used together.">>),
             <<1>>, "0")
    ELSE IF a.json /\ a.verbose
    THEN Ran(ErrorLine(<<"Error: --json and --verbose cannot be used together.">>), <<1>>, env)
    ELSE IF a.insecure THEN Ran(InsecureWarning, <<>>, "0")
    ELSE Ran(<<>>, <<>>, env)

StartupRestoring(a, env) ==
    IF a.version THEN Ran(<< Out("stdout", <<"VERSION">>) >>, <<0>>, env)
    ELSE IF a.help THEN Ran(<< Out("stdout", <<"HELP_TEXT">>) >>, <<0>>, env)
    ELSE IF a.json /\ a.verbose
    THEN Ran(ErrorLine(<<"Error: --json and --verbose cannot be used together.">>), <<1>>, env)
    ELSE IF a.insecure THEN Ran(InsecureWarning, <<>>, "0")
    ELSE Ran(<<>>, <<>>, Undefined)

(* lines 41-62: --version, --help, the --json/--verbose exclusion, --insecure *)
Startup(a, env) ==
    IF a.version THEN Ran(<< Out("stdout", <<"VERSION">>) >>, <<0>>, env)
    ELSE IF a.help THEN Ran(<< Out("stdout", <<"HELP_TEXT">>) >>, <<0>>, env)
    ELSE IF a.json /\ a.verbose
    THEN Ran(ErrorLine(<<"Error: --json and --verbose cannot be used together.">>), <<1>>, env)
    ELSE IF a.insecure THEN Ran(InsecureWarning, <<>>, "0")
    ELSE Ran(<<>>, <<>>, env)

(* lines 82-86: args.command is none of login, logout and merge *)
UsageError ==
    << Out("stderr", <<"Usage: chapa <login | logout | merge> [options]">>),
       Out("stderr", <<"Run 'chapa --help' for more information.">>) >>

(* lines 39-65, 71 and 82: main gets past its first exits and args.command
   selects what runs *)
Dispatch(a, cmd) ==
    /\ command = "none"
    /\ Startup(a, tlsEnv).exit = <<>>
    /\ command' = cmd
    /\ args' = a
    /\ tlsEnv' = Startup(a, tlsEnv).env
    /\ startup' = [lines |-> Startup(a, tlsEnv).lines, exit |-> <<>>]
    /\ UNCHANGED stored0

(* lines 39-55 and 82-86: main ends before a command runs, at --version,
   --help or --json with --verbose, or because there is no valid command *)
ExitsEarly(a, cmd) ==
    /\ command = "none"
    /\ Startup(a, tlsEnv).exit # <<>> \/ cmd = Null
    /\ command' = cmd
    /\ args' = a
    /\ tlsEnv' = Startup(a, tlsEnv).env
    /\ startup' = IF Startup(a, tlsEnv).exit # <<>>
                  THEN [lines |-> Startup(a, tlsEnv).lines, exit |-> Startup(a, tlsEnv).exit]
                  ELSE [lines |-> Startup(a, tlsEnv).lines \o UsageError, exit |-> <<1>>]
    /\ UNCHANGED stored0

Running(cmd) == command = cmd /\ startup.exit = <<>> /\ UNCHANGED cliVars

NotStarted == [lines |-> <<>>, exit |-> <<>>]

CliIdle == command = "none" /\ stored0 = config /\ args = NoOptions /\ startup = NotStarted

CliInit == CliIdle /\ tlsEnv = Undefined

----------------------------------------------------------------------------
(* The credential record, as the claims state it *)

LoginEnded == command = "login" /\ state \in Terminal

(* C17: the stored credential record is created or changed only by a login
   that reaches approved: a login that ends expired or timed-out and a merge
   on any of its paths leave the record as it was when the process started,
   and logout only deletes it. *)
C17_OnlyApprovedLoginWrites ==
    /\ config # stored0 =>
           \/ command = "login" /\ state = "approved" /\ config.present /\ saveCount = 1
           \/ command = "logout" /\ config = NoConfig
    /\ (command = "login" /\ state # "approved") => config = stored0
    /\ command = "merge" => config = stored0
    /\ (command = "logout" /\ mpc = "exited") => config = NoConfig

C17_Witness ==
    /\ command = "login" /\ state = "timed-out" /\ stored0 = SavedRecord
    /\ config = SavedRecord /\ pollCount = MAX_POLL_ATTEMPTS

AllResolved ==
    /\ Truthy(locals.emuHandle) /\ Truthy(locals.handle)
    /\ Truthy(locals.emuToken) /\ Truthy(locals.authToken)

Requests == SelectSeq(events, LAMBDA e : e.ev = "request")

FetchReturnedNull == GhSettled /\ locals.emuStats.isNull

(* C21: in a merge the GitHub request of fetchEmuStats is made only with the
   EMU handle, the personal handle, the EMU token and the auth token all
   resolved, and the upload request only after fetchEmuStats has returned
   statistics; with an input missing the process exits with code 1 having
   made no request, and with a null fetch result it exits with code 1 having
   made no request to the Chapa server. *)
C21_FetchThenUploadInOrder ==
    /\ \A k \in DOMAIN events :
           IsGitHub(events[k]) =>
               /\ AllResolved
               /\ \A j \in 1..(k - 1) : events[j].ev # "request"
    /\ \A k \in DOMAIN events :
           IsUpload(events[k]) =>
               /\ GhSettled /\ ~locals.emuStats.isNull
               /\ events[k].stats = locals.emuStats.v
               /\ \E j \in 1..(k - 1) : IsGitHub(events[j])
    /\ (MergeStarted /\ ~AllResolved) =>
           MergeEnded /\ mExit = <<1>> /\ Requests = <<>> /\ ~GhSettled
    /\ FetchReturnedNull =>
           /\ MergeEnded /\ mExit = <<1>> /\ ~UpSettled
           /\ Len(Requests) = 1 /\ IsGitHub(Requests[1])

C21_Witness ==
    /\ FetchReturnedNull /\ gh.kind = "http" /\ gh.status = 200
    /\ mExit = <<1>> /\ Len(Requests) = 1

----------------------------------------------------------------------------
(* main, as the claims state it *)

Stdout == SelectSeq(startup.lines \o events, LAMBDA e : e.ev = "out" /\ e.to = "stdout")

(* the text of one JSON object with a boolean member "success" *)
IsResultDocument(e) ==
    /\ Len(e.text) >= 4
    /\ e.text[1] = "{" /\ e.text[Len(e.text)] = "}"
    /\ e.text[2] = "success" /\ e.text[3] \in {"true", "false"}
    /\ \A k \in 2..(Len(e.text) - 1) : e.text[k] \notin {"{", "}"}

JsonMerge == command = "merge" /\ args.json

(* C22: with --json a merge that has ended, in success or in failure, has
   written to stdout exactly one JSON document with a boolean success member,
   and nothing else. *)
C22_JsonOneDocument ==
    JsonMerge =>
        /\ \A k \in DOMAIN Stdout : IsResultDocument(Stdout[k])
        /\ Len(Stdout) <= 1
        /\ MergeEnded => Len(Stdout) = 1

(* the failure for which the code does write the document: a failed upload *)
C22_DocumentOnUploadFailure ==
    /\ JsonMerge /\ MergeEnded /\ UpSettled /\ FailedUpload(up)
    /\ Len(Stdout) = 1 /\ IsResultDocument(Stdout[1]) /\ Stdout[1].text[3] = "false"

JsonWithVerbose(a) == a.json /\ a.verbose /\ ~a.version /\ ~a.help

ExitsAtJsonVerbose ==
    (command' # "none" /\ JsonWithVerbose(args')) =>
        /\ command = "none"
        /\ startup'.exit = <<1>>
        /\ tlsEnv' = tlsEnv
        /\ pc' = "start" /\ pollCount' = 0
        /\ config' = stored0' /\ saveCount' = 0
        /\ mpc' = "start" /\ events' = <<>> /\ locals' = NoLocals
        /\ UNCHANGED <<loginVars, storeVars, statsVars, mergeVars>>

(* C23: with --json and --verbose both set, and neither --version nor --help,
   main exits with code 1 before any other effect: the step that ends it
   leaves NODE_TLS_REJECT_UNAUTHORIZED as it was, login has not been called,
   the config store has not been read or written, no request has been made,
   and no step follows. *)
C23_JsonVerboseExitsFirst == [][ExitsAtJsonVerbose]_vars

C23_Witness ==
    /\ command = "merge" /\ JsonWithVerbose(args) /\ args.insecure
    /\ startup.exit = <<1>> /\ tlsEnv = "1"

PastStartup == command # "none" /\ ~args.version /\ ~args.help /\ ~(args.json /\ args.verbose)

RequestMade == pollCount > 0 \/ Requests # <<>>

OnlyStartupSetsTls ==
    tlsEnv' # tlsEnv => (command = "none" /\ args'.insecure /\ tlsEnv' = "0")

(* C24: main sets NODE_TLS_REJECT_UNAUTHORIZED to "0" when --insecure is given
   and it gets to run a command, so that the variable is "0" whenever a
   request has been made under --insecure; no other step changes the
   variable: not main without --insecure, and no step of login. *)
C24_InsecureSetsTlsBypass ==
    /\ []((PastStartup /\ args.insecure) => tlsEnv = "0")
    /\ []((RequestMade /\ args.insecure) => tlsEnv = "0")
    /\ [][OnlyStartupSetsTls]_vars

C24_Witness ==
    /\ command = "login" /\ args.insecure /\ state = "approved"
    /\ pollCount > 1 /\ tlsEnv = "0"

----------------------------------------------------------------------------
(* Several calls of login in one process: each call has its own locals; the
   process, the generator of randomUUID and the credentials file are shared *)

Callers == {"first", "second"}

SessionServers == { DEFAULT_SERVER, <<"https:", "/", "/", "example.com", "/">> }

(* the polls of one login that are followed *)
MaxSessionPolls == 4

(* the n-th value of randomUUID() in the process: no value comes twice *)
Uuid(n) == "uuid-" \o ToString(n)

AuthorizeUrl(base, id) == base \o <<"/cli/authorize?session=", id>>

(* mutant: the poll carries an identifier of its own *)
PollUrlOwnSession(base, id) == base \o <<"/api/cli/auth/poll?session=", Uuid(0)>>

PollUrl(base, id) == base \o <<"/api/cli/auth/poll?session=", id>>

NotCalled ==
    [pc |-> "start", baseUrl |-> <<>>, sessionId |-> "", authorizeUrl |-> <<>>, i |-> 0,
     serverErrorLogged |-> FALSE, polls |-> 0, pollUrl |-> <<>>, saved |-> Nul,
     state |-> "polling"]

(* what the poll requests come back with *)
PollOutcomes ==
    { Http(200, Body("pending", Undefined, Undefined)),
      Http(200, Body("expired", Undefined, Undefined)),
      Http(200, Body("approved", "tok-a", "alice")),
      Http(200, Body("approved", "tok-b", "bob")),
      Http(503, EmptyBody),
      Throw(<< FetchFailed >>) }

SessionsInit ==
    /\ logins = [l \in Callers |-> NotCalled]
    /\ uuids = 0
    /\ credentials = Nul
    /\ processExit = <<>>

ProcessRuns == processExit = <<>>

(* `continue` or the end of the loop body, and the timeout past the loop *)
Continued(me, logged) ==
    IF LoopContinues(me.i + 1)
    THEN [me EXCEPT !.i = @ + 1, !.pc = "sleep", !.serverErrorLogged = logged]
    ELSE [me EXCEPT !.i = @ + 1, !.pc = "exited", !.state = "timed-out",
                    !.serverErrorLogged = logged]

(* the rest of the loop body of login, called without options, once its poll
   request has settled as r *)
AfterPoll(me, r) ==
    IF r.kind = "http" /\ ~ResOk(r) THEN Continued(me, TRUE)
    ELSE IF Throws(r) THEN Continued(me, me.serverErrorLogged)
    ELSE IF IsApproved(r.body)
    THEN [me EXCEPT !.pc = "returned", !.state = "approved",
                    !.saved = Some([token |-> r.body.token, handle |-> r.body.handle,
                                    server |-> me.baseUrl])]
    ELSE IF IsExpired(r.body) THEN [me EXCEPT !.pc = "exited", !.state = "expired"]
    ELSE Continued(me, me.serverErrorLogged)

(* login(url) up to the first await sleep() *)
StartLogin(l, url) ==
    /\ ProcessRuns
    /\ logins[l].pc = "start"
    /\ uuids' = uuids + 1
    /\ logins' = [logins EXCEPT ![l] =
           [@ EXCEPT !.pc = "sleep",
                     !.baseUrl = StripTrailingSlashes(url),
                     !.sessionId = Uuid(uuids + 1),
                     !.authorizeUrl = AuthorizeUrl(StripTrailingSlashes(url), Uuid(uuids + 1))]]
    /\ UNCHANGED <<credentials, processExit>>

(* the sleep() of one login resolves and its fetch() is called *)
WakeLogin(l) ==
    /\ ProcessRuns
    /\ logins[l].pc = "sleep"
    /\ logins[l].polls < MaxSessionPolls
    /\ logins' = [logins EXCEPT ![l] =
           [@ EXCEPT !.pc = "fetch", !.polls = @ + 1,
                     !.pollUrl = PollUrl(logins[l].baseUrl, logins[l].sessionId)]]
    /\ UNCHANGED <<uuids, credentials, processExit>>

(* the poll request of one login settles; saveConfig writes the shared file
   and process.exit ends the process, with every login in it *)
SettleLogin(l, r) ==
    /\ ProcessRuns
    /\ logins[l].pc = "fetch"
    /\ logins' = [logins EXCEPT ![l] = AfterPoll(logins[l], r)]
    /\ credentials' = IF AfterPoll(logins[l], r).pc = "returned"
                      THEN AfterPoll(logins[l], r).saved
                      ELSE credentials
    /\ processExit' = IF AfterPoll(logins[l], r).pc = "exited" THEN <<1>> ELSE processExit
    /\ UNCHANGED uuids

----------------------------------------------------------------------------
(* The exported pure functions called directly, one call per behaviour *)

(* the sizes computePrWeight is called with directly: none, small ones, and
   ones large enough for the 3.0 ceiling *)
PrSizes ==
    { Pr(TRUE, a, d, f) : a \in {0, 1, 2, 10000}, d \in {0, 1, 5000}, f \in {0, 1, 2, 14, 100} }

NotWeighed == [called |-> FALSE, pr |-> Pr(TRUE, 0, 0, 0), weight |-> 0]

(* the flags and environment values resolveToken is called with directly:
   no flag, an empty one and a token; the variable unset, empty, white space
   only, a token, and a token with white space around it *)
TokenFlags == {Undefined, "", "flag-tok"}

TokenEnvs ==
    { Unset, Padded("", 0, 0), Padded("", 2, 0), Padded("", 1, 1),
      Padded("env-tok", 0, 0), Padded("env-tok", 2, 0), Padded("env-tok", 1, 1) }

NotResolved == [called |-> FALSE, flag |-> Undefined, env |-> Unset, ret |-> Null]

(* the uploads that fail, with clean messages and with messages that hold a
   port number, a host name or an error body written by the server *)
UploadFailures ==
    { UpThrow("connect ECONNREFUSED"), UpThrow("connect ECONNREFUSED 127.0.0.1:4010"),
      UpThrow("getaddrinfo ENOTFOUND api.example.com"), UpThrow("fetch failed"),
      UpHttp(401, "Invalid token"), UpHttp(403, "Forbidden"), UpHttp(404, "Not found"),
      UpHttp(422, "GraphQL backend down"), UpHttp(429, "retry after 500 ms"),
      UpHttp(500, Undefined), UpHttp(502, "upstream sign-in returned 401"),
      UpHttp(503, "Unavailable") }

(* parseArgs.  An element of argv: its leading dashes and the text after them *)
Arg(dashes, text) == [dashes |-> dashes, text |-> text]

Flag(name) == Arg(2, name)

Word(w) == Arg(0, w)

(* a.startsWith("--"), a.startsWith("-") *)
StartsWithDashDash(a) == a.dashes >= 2

StartsWithDash(a) == a.dashes >= 1

VALID_COMMANDS == {"merge", "login", "logout"}

StringOptions == {"handle", "emu-handle", "emu-token", "token", "server"}

BooleanOptions == {"verbose", "insecure", "version", "help"}

(* the value node:util stores for an option that has none *)
True == Arg(0, "<true>")

(* argv.find((a) => !a.startsWith("--") && !a.startsWith("-")) *)
Positional(argv) ==
    IF \E k \in DOMAIN argv : ~StartsWithDashDash(argv[k]) /\ ~StartsWithDash(argv[k])
    THEN Some(argv[CHOOSE k \in DOMAIN argv :
                      /\ ~StartsWithDashDash(argv[k]) /\ ~StartsWithDash(argv[k])
                      /\ \A j \in 1..(k - 1) : StartsWithDashDash(argv[j]) \/ StartsWithDash(argv[j])])
    ELSE Nul

(* argv.filter((a) => a !== positional || a.startsWith("--")) *)
FlagArgs(argv) ==
    SelectSeq(argv, LAMBDA a : Positional(argv).isNull \/ a # Positional(argv).v
                               \/ StartsWithDashDash(a))

(* the name of the option a short option stands for *)
LongOf(a) ==
    IF a.dashes = 2 THEN a.text
    ELSE IF a.text = "v" THEN "version"
    ELSE IF a.text = "h" THEN "help"
    ELSE a.text

NoValues == [o \in StringOptions \cup BooleanOptions |-> Nul]

Store(values, option, value) ==
    IF option \in DOMAIN values THEN [values EXCEPT ![option] = Some(value)] ELSE values

(* nodeParseArgs({args, options, strict: false}).values: a string option takes
   the element after it, whatever it is; an option without one, a boolean
   option and an unknown option get true; positionals are passed over *)
RECURSIVE nodeParseArgs(_, _)
nodeParseArgs(rest, values) ==
    IF rest = <<>> THEN values
    ELSE IF ~StartsWithDash(Head(rest)) THEN nodeParseArgs(Tail(rest), values)
    ELSE IF LongOf(Head(rest)) \in StringOptions /\ Len(rest) >= 2
    THEN nodeParseArgs(Tail(Tail(rest)), Store(values, LongOf(Head(rest)), rest[2]))
    ELSE nodeParseArgs(Tail(rest), Store(values, LongOf(Head(rest)), True))

Command(positional) ==
    IF ~positional.isNull /\ positional.v.text \in VALID_COMMANDS THEN positional.v.text
    ELSE Null

parseArgs(argv) ==
    [command |-> Command(Positional(argv)),
     handle |-> nodeParseArgs(FlagArgs(argv), NoValues)["handle"],
     emuHandle |-> nodeParseArgs(FlagArgs(argv), NoValues)["emu-handle"],
     emuToken |-> nodeParseArgs(FlagArgs(argv), NoValues)["emu-token"],
     token |-> nodeParseArgs(FlagArgs(argv), NoValues)["token"],
     server |-> IF nodeParseArgs(FlagArgs(argv), NoValues)["server"].isNull
                THEN Some(Word("https://chapa.thecreativetoken.com"))
                ELSE nodeParseArgs(FlagArgs(argv), NoValues)["server"],
     verbose |-> ~nodeParseArgs(FlagArgs(argv), NoValues)["verbose"].isNull,
     insecure |-> ~nodeParseArgs(FlagArgs(argv), NoValues)["insecure"].isNull,
     version |-> ~nodeParseArgs(FlagArgs(argv), NoValues)["version"].isNull,
     help |-> ~nodeParseArgs(FlagArgs(argv), NoValues)["help"].isNull]

(* command lines: a command among up to two `--flag value` pairs of different
   flags, before, between or after them, with values that are a handle, a
   URL, or the word of a command *)
PairFlags == {"handle", "emu-handle", "server"}

PairValues == {"juan294", "http://localhost:3001", "merge"}

Pairs == { <<f, v>> : f \in PairFlags, v \in PairValues }

PairLists ==
    { <<>> } \cup { << p >> : p \in Pairs }
    \cup { pq \in Pairs \X Pairs : pq[1][1] # pq[2][1] }

RECURSIVE Spread(_)
Spread(pairs) ==
    IF pairs = <<>> THEN <<>>
    ELSE << Flag(Head(pairs)[1]), Word(Head(pairs)[2]) >> \o Spread(Tail(pairs))

(* the command after the first n pairs *)
Argv(cmd, pairs, n) ==
    Spread(SubSeq(pairs, 1, n)) \o << Word(cmd) >> \o Spread(SubSeq(pairs, n + 1, Len(pairs)))

NotParsed == [called |-> FALSE, cmd |-> Null, pairs |-> <<>>, argv |-> <<>>, ret |-> parseArgs(<<>>)]

NotClassified == [called |-> FALSE, cause |-> NoUp, message |-> <<>>, ret |-> "unknown"]

CallsIdle ==
    /\ weighed = NotWeighed /\ resolved = NotResolved
    /\ classified = NotClassified /\ parsed = NotParsed

ComputePrWeight(pr) ==
    /\ CallsIdle
    /\ weighed' = [called |-> TRUE, pr |-> pr, weight |-> computePrWeight(pr)]

ResolveToken(flag, e) ==
    /\ CallsIdle
    /\ resolved' = [called |-> TRUE, flag |-> flag, env |-> e, ret |-> resolveToken(flag, e)]

(* main: classifyError(result.error ?? "unknown") on the result of the upload *)
ClassifyError(u) ==
    /\ CallsIdle
    /\ classified' = [called |-> TRUE, cause |-> u,
                      message |-> uploadSupplementalStats(u).error,
                      ret |-> classifyError(uploadSupplementalStats(u).error)]

ParseArgs(cmd, pairs, n) ==
    /\ CallsIdle
    /\ parsed' = [called |-> TRUE, cmd |-> cmd, pairs |-> pairs, argv |-> Argv(cmd, pairs, n),
                  ret |-> parseArgs(Argv(cmd, pairs, n))]

----------------------------------------------------------------------------
(* The exported pure functions called directly, as the claims state them *)

ZeroSize(pr) == pr.additions = 0 /\ pr.deletions = 0 /\ pr.changedFiles = 0

(* q is p with one of additions, deletions, changedFiles raised *)
RaisedInOne(p, q) ==
    \/ q.additions > p.additions /\ q.deletions = p.deletions /\ q.changedFiles = p.changedFiles
    \/ q.additions = p.additions /\ q.deletions > p.deletions /\ q.changedFiles = p.changedFiles
    \/ q.additions = p.additions /\ q.deletions = p.deletions /\ q.changedFiles > p.changedFiles

(* C31: computePrWeight gives exactly 0.5 (500 thousandths) for a PR with no
   additions, deletions or changed files, and raising one of the three with
   the other two held fixed never lowers the weight. *)
C31_HalfAndMonotone ==
    weighed.called =>
        /\ ZeroSize(weighed.pr) => weighed.weight = 500
        /\ \A q \in PrSizes : RaisedInOne(weighed.pr, q) => computePrWeight(q) >= weighed.weight
        /\ \A q \in PrSizes : RaisedInOne(q, weighed.pr) => computePrWeight(q) <= weighed.weight

C31_Witness ==
    /\ weighed.called /\ ZeroSize(weighed.pr) /\ weighed.weight = 500
    /\ \E q \in PrSizes : RaisedInOne(weighed.pr, q) /\ computePrWeight(q) > 500

(* the environment variable holds something besides white space *)
EnvHasToken(e) == e.set /\ e.core # ""

(* C32: resolveToken returns the flag whenever a flag is provided (a
   non-empty string, as `if (flag)` tests it), whatever the environment
   variable holds; without one it returns the variable's value with the white
   space around it removed when that leaves something, and null otherwise. *)
C32_FlagThenTrimmedEnv ==
    resolved.called =>
        /\ resolved.flag \notin {Undefined, ""} => resolved.ret = resolved.flag
        /\ resolved.flag \in {Undefined, ""} /\ EnvHasToken(resolved.env)
               => resolved.ret = resolved.env.core
        /\ resolved.flag \in {Undefined, ""} /\ ~EnvHasToken(resolved.env)
               => resolved.ret = Null

C32_Witness ==
    /\ resolved.called /\ resolved.flag = "flag-tok"
    /\ resolved.env = Padded("env-tok", 1, 1) /\ resolved.ret = "flag-tok"

(* the message holds one of the network error codes *)
HoldsNetworkCode(message) == \E p \in NetworkPatterns : Test(p, Chars(message))

(* the category of what made the upload fail: the status of the response, or
   the error the request was rejected with *)
CategoryOfCause(u, message) ==
    IF u.kind = "http" /\ u.status \in {401, 403} THEN "auth"
    ELSE IF u.kind = "http" /\ u.status \in 500..599 THEN "server"
    ELSE IF u.kind = "throw" /\ HoldsNetworkCode(message) THEN "network"
    ELSE IF Test(GraphqlPattern, Chars(message)) THEN "graphql"
    ELSE "unknown"

(* C33: classifyError gives the category of the failure's cause whatever
   other text the message holds: "auth" for a 401 or 403 response, "server"
   for a 5xx response, "network" for a rejected request with ECONNREFUSED,
   ETIMEDOUT or ENOTFOUND, "graphql" for another message that mentions
   GraphQL, and "unknown" for the rest. *)
C33_CategoryOfCause ==
    classified.called => classified.ret = CategoryOfCause(classified.cause, classified.message)

(* a server error without a body is classified by its status *)
C33_PlainServerError ==
    /\ classified.called /\ classified.cause = UpHttp(500, Undefined)
    /\ classified.message = <<"Server returned ", "500", ": ", "Unknown error">>
    /\ classified.ret = "server"

----------------------------------------------------------------------------
(* The end of login, as the claims state it *)

LoginCalled == pc # "start"

LoginOver == pc \in {"returned", "exited"}

(* C34: when the timer fires and every poll request settles, a login that
   was called ends, whatever the polls come back with: approved with a normal
   return, expired with exit code 1, or timed out with exit code 1, and in no
   other way; it has then issued at most 150 poll requests. *)
C34_LoginTerminates ==
    /\ [](pollCount <= MAX_POLL_ATTEMPTS)
    /\ [](LoginOver <=> state \in Terminal)
    /\ [](state = "approved" => pc = "returned" /\ exitCode = <<>>)
    /\ [](state \in {"expired", "timed-out"} => pc = "exited" /\ exitCode = <<1>>)
    /\ (LoginCalled ~> LoginOver)

C34_Witness ==
    /\ LoginOver /\ state = "timed-out" /\ ~allPending
    /\ pollCount = MAX_POLL_ATTEMPTS /\ settled = MAX_POLL_ATTEMPTS

(* a sleep() of login is pending: the wait has begun and its poll has not *)
Waiting == pc = "sleep"

WaitThenPoll ==
    /\ pollCount' # pollCount => pollCount' = pollCount + 1 /\ waitedMs' = waitedMs + 2000
    /\ waitedMs' # waitedMs => pollCount' = pollCount + 1 /\ pc = "sleep" /\ pc' = "fetch"

(* C35: every poll request of a login, the first included, comes after one
   wait of 2000 ms of its own, and a wait that has ended is followed at once
   by its poll: the waits add up to 2000 ms for each poll issued, and a login
   that timed out has waited 150 x 2000 ms = 300000 ms. *)
C35_OneWaitPerPoll ==
    /\ [](waitedMs = 2000 * pollCount)
    /\ [](state = "timed-out" => waitedMs = 300000)
    /\ [](Waiting => state = "polling" /\ pollCount < MAX_POLL_ATTEMPTS)
    /\ [][WaitThenPoll]_vars

C35_Witness == state = "timed-out" /\ pollCount = 150 /\ waitedMs = 300000

Dots == OutLines({"dot"})

(* the poll attempts made before the one in flight *)
AttemptsBefore == pollCount - 1

(* what a step that ends a wait does besides its output *)
PollIssued ==
    /\ pollCount' = pollCount + 1 /\ pc' = "fetch" /\ resp' = NoResp
    /\ UNCHANGED <<i, verbose, insecure, serverUrl, baseUrl, serverErrorLogged, config,
                   saveCount, exitCode, state, settled, diagnosed>>

ProgressIsCosmetic ==
    /\ pc = "sleep" => PollIssued
    /\ OutLines({"dot"})' # <<>> => pc = "sleep"

(* C36: one progress dot is written before attempt k+1 exactly when k is a
   positive multiple of 5, and nowhere else; the step that writes it does to
   the loop counter, the polls, the stored credential, the exit code and the
   state of the login exactly what the step without a dot does, so the same
   poll outcomes give the same polls, saveConfig call and terminal state. *)
C36_ProgressDots ==
    /\ [](Len(Dots) <= 1)
    /\ [](Dots # <<>> <=> pc = "fetch" /\ AttemptsBefore > 0 /\ AttemptsBefore % 5 = 0)
    /\ [][ProgressIsCosmetic]_vars

C36_Witness ==
    /\ pc = "fetch" /\ pollCount = 6 /\ Len(Dots) = 1 /\ resp = NoResp

----------------------------------------------------------------------------
(* Several logins in one process, as the claims state it *)

(* the session parameter of a URL *)
SessionOf(url) == url[Len(url)]

(* the polls a login may still make *)
PollsLeft(me) ==
    IF ProcessRuns /\ me.pc \in {"start", "sleep", "fetch"}
    THEN MAX_POLL_ATTEMPTS - me.polls
    ELSE 0

(* a step of one login leaves the other as it was *)
LeavesAlone(l, m) ==
    logins[l]' # logins[l] =>
        /\ logins[m]' = logins[m]
        /\ PollsLeft(logins[m])' = PollsLeft(logins[m])

(* C37: of several logins in one process each has its own session
   identifier, poll counter and error-logged flag, and a step of one login,
   its terminal outcome included, changes neither the locals of another nor
   the number of polls the other may still make. *)
C37_LoginsAreIsolated ==
    /\ [](\A l, m \in Callers :
            l # m /\ logins[l].pc # "start" /\ logins[m].pc # "start"
                => logins[l].sessionId # logins[m].sessionId)
    /\ [][\A l, m \in Callers : l # m => LeavesAlone(l, m)]_vars

(* one login is approved after its first poll and saves its own credential
   while the other, after a failed poll, goes on with its own identifier *)
C37_ApprovedBesidePolling ==
    /\ ProcessRuns
    /\ logins["first"].state = "approved" /\ logins["first"].polls = 1
    /\ credentials = logins["first"].saved
    /\ logins["second"].pc = "fetch" /\ logins["second"].polls = 3
    /\ logins["second"].serverErrorLogged /\ ~logins["first"].serverErrorLogged
    /\ logins["second"].sessionId # logins["first"].sessionId

SessionKept(l) ==
    logins[l].pc # "start" =>
        /\ logins[l]'.sessionId = logins[l].sessionId
        /\ logins[l]'.authorizeUrl = logins[l].authorizeUrl
        /\ logins[l]'.polls # logins[l].polls
               => SessionOf(logins[l]'.pollUrl) = SessionOf(logins[l].authorizeUrl)

(* C38: the session identifier of a login is generated once, at its start:
   the authorize URL shown holds it, every poll request of the login is sent
   with it, after failed polls as well, and no step changes it. *)
C38_OneSessionId ==
    /\ [](\A l \in Callers :
            logins[l].pc # "start" =>
                /\ logins[l].sessionId # ""
                /\ SessionOf(logins[l].authorizeUrl) = logins[l].sessionId
                /\ logins[l].polls > 0 => SessionOf(logins[l].pollUrl) = logins[l].sessionId)
    /\ [][\A l \in Callers : SessionKept(l)]_vars

C38_Witness ==
    \E l \in Callers :
        /\ logins[l].pc = "fetch" /\ logins[l].polls = 2 /\ logins[l].serverErrorLogged
        /\ SessionOf(logins[l].pollUrl) = SessionOf(logins[l].authorizeUrl)
        /\ logins[l].sessionId = Uuid(2)

(* the member of the result that holds a string option *)
MemberOf ==
    [o \in StringOptions |->
        IF o = "emu-handle" THEN "emuHandle" ELSE IF o = "emu-token" THEN "emuToken" ELSE o]

(* C39: for an argv of one valid command and `--flag value` pairs, parseArgs
   returns that command and, for each string flag, the value that follows
   it, wherever the command stands among the pairs and whatever the values
   are, a value equal to the command word included. *)
C39_CommandAndValuesAnywhere ==
    parsed.called =>
        /\ parsed.ret.command = parsed.cmd
        /\ \A k \in DOMAIN parsed.pairs :
               parsed.ret[MemberOf[parsed.pairs[k][1]]] = Some(Word(parsed.pairs[k][2]))

(* the command first, then two pairs whose values are not the command word *)
C39_CommandFirst ==
    /\ parsed.called
    /\ parsed.argv = << Word("merge"), Flag("handle"), Word("juan294"),
                        Flag("server"), Word("http://localhost:3001") >>
    /\ parsed.ret.command = "merge"
    /\ parsed.ret.handle = Some(Word("juan294"))
    /\ parsed.ret.server = Some(Word("http://localhost:3001"))
    /\ parsed.ret.emuHandle = Nul

----------------------------------------------------------------------------
(* The specifications *)

Init == LoginInit /\ StoreIdleInit /\ StatsInit /\ MergeInit /\ CliInit /\ CallsIdle /\ SessionsInit

Next ==
    \/ (\E url \in ServerUrls, v \in BOOLEAN, ins \in BOOLEAN : Login(url, v, ins))
           /\ UNCHANGED <<storeVars, statsVars, mergeVars, cliVars, callVars, sessionVars>>
    \/ Tick /\ UNCHANGED <<storeVars, statsVars, mergeVars, cliVars, callVars, sessionVars>>
    \/ (\E r \in Outcomes : Respond(r)) /\ UNCHANGED <<storeVars, statsVars, mergeVars, cliVars, callVars, sessionVars>>

Spec == Init /\ [][Next]_vars

(* login on one server URL, where the timer of sleep() fires and every poll
   request settles: it returns a response or throws *)
NextLive ==
    \/ (\E v \in BOOLEAN, ins \in BOOLEAN : Login(DEFAULT_SERVER, v, ins))
           /\ UNCHANGED <<storeVars, statsVars, mergeVars, cliVars, callVars, sessionVars>>
    \/ Tick /\ UNCHANGED <<storeVars, statsVars, mergeVars, cliVars, callVars, sessionVars>>
    \/ (\E r \in Outcomes : Respond(r))
           /\ UNCHANGED <<storeVars, statsVars, mergeVars, cliVars, callVars, sessionVars>>

SpecLive ==
    /\ Init /\ [][NextLive]_vars
    /\ WF_vars(Tick /\ UNCHANGED <<storeVars, statsVars, mergeVars, cliVars, callVars, sessionVars>>)
    /\ WF_vars((\E r \in Outcomes : Respond(r))
                  /\ UNCHANGED <<storeVars, statsVars, mergeVars, cliVars, callVars, sessionVars>>)

InitStore == LoginInit /\ StoreInit /\ StatsInit /\ MergeInit /\ CliInit /\ CallsIdle /\ SessionsInit

NextStore ==
    \/ LoadConfig /\ UNCHANGED <<loginVars, statsVars, mergeVars, cliVars, callVars, sessionVars>>
    \/ (\E c \in SavedConfigs : SaveConfig(c)) /\ UNCHANGED <<loginVars, statsVars, mergeVars, cliVars, callVars, sessionVars>>
    \/ DeleteConfig /\ UNCHANGED <<loginVars, statsVars, mergeVars, cliVars, callVars, sessionVars>>

SpecStore == InitStore /\ [][NextStore]_vars

InitStats == LoginInit /\ StoreIdleInit /\ StatsInit /\ MergeInit /\ CliInit /\ CallsIdle /\ SessionsInit

NextStats ==
    (\E raw \in RawPayloads : BuildStats(raw)) /\ UNCHANGED <<loginVars, storeVars, mergeVars, cliVars, callVars, sessionVars>>

SpecStats == InitStats /\ [][NextStats]_vars

InitMerge ==
    /\ LoginIdle /\ config \in StoredConfigs
    /\ StoreIdleInit /\ StatsInit /\ MergeInit /\ CliInit /\ CallsIdle /\ SessionsInit

NextMerge ==
    \/ (\E a \in Invocations : MergeStart(a)) /\ UNCHANGED <<loginVars, storeVars, statsVars, cliVars, callVars, sessionVars>>
    \/ (\E g \in GhOutcomes : FetchSettles(g)) /\ UNCHANGED <<loginVars, storeVars, cliVars, callVars, sessionVars>>
    \/ (\E u \in UploadOutcomes : UploadSettles(u))
           /\ UNCHANGED <<loginVars, storeVars, statsVars, cliVars, callVars, sessionVars>>
    \/ (\E t \in TelemetryOutcomes : TelemetrySettles(t))
           /\ UNCHANGED <<loginVars, storeVars, statsVars, cliVars, callVars, sessionVars>>

SpecMerge == InitMerge /\ [][NextMerge]_vars

InitCli ==
    /\ LoginIdle /\ config \in StoredConfigs
    /\ StoreIdleInit /\ StatsInit /\ MergeInit
    /\ CliIdle /\ tlsEnv \in TlsSettings
    /\ CallsIdle /\ SessionsInit

NextCli ==
    \/ \E a \in CliOptions :
           /\ Dispatch(a, "login")
           /\ \E url \in ServerUrls : Login(url, a.verbose, a.insecure)
           /\ UNCHANGED <<storeVars, statsVars, mergeVars, callVars, sessionVars>>
    \/ Running("login") /\ Tick /\ UNCHANGED <<storeVars, statsVars, mergeVars, callVars, sessionVars>>
    \/ Running("login")
           /\ (\E r \in Outcomes : Respond(r))
           /\ UNCHANGED <<storeVars, statsVars, mergeVars, callVars, sessionVars>>
    \/ \E a \in CliOptions :
           Dispatch(a, "logout") /\ Logout /\ UNCHANGED <<storeVars, statsVars, callVars, sessionVars>>
    \/ \E a \in CliOptions :
           /\ Dispatch(a, "merge")
           /\ \E m \in Invocations : m.json = a.json /\ MergeStart(m)
           /\ UNCHANGED <<loginVars, storeVars, statsVars, callVars, sessionVars>>
    \/ Running("merge")
           /\ (\E g \in GhOutcomes : FetchSettles(g))
           /\ UNCHANGED <<loginVars, storeVars, callVars, sessionVars>>
    \/ Running("merge")
           /\ (\E u \in UploadOutcomes : UploadSettles(u))
           /\ UNCHANGED <<loginVars, storeVars, statsVars, callVars, sessionVars>>
    \/ Running("merge")
           /\ (\E t \in TelemetryOutcomes : TelemetrySettles(t))
           /\ UNCHANGED <<loginVars, storeVars, statsVars, callVars, sessionVars>>
    \/ \E a \in CliOptions, cmd \in Commands :
           ExitsEarly(a, cmd) /\ UNCHANGED <<loginVars, storeVars, statsVars, mergeVars, callVars, sessionVars>>

SpecCli == InitCli /\ [][NextCli]_vars

InitCalls == LoginInit /\ StoreIdleInit /\ StatsInit /\ MergeInit /\ CliInit /\ CallsIdle /\ SessionsInit

NextCalls ==
    \/ (\E pr \in PrSizes : ComputePrWeight(pr))
           /\ UNCHANGED <<loginVars, storeVars, statsVars, mergeVars, cliVars, sessionVars>>
           /\ UNCHANGED <<resolved, classified, parsed>>
    \/ (\E flag \in TokenFlags, e \in TokenEnvs : ResolveToken(flag, e))
           /\ UNCHANGED <<loginVars, storeVars, statsVars, mergeVars, cliVars, sessionVars>>
           /\ UNCHANGED <<weighed, classified, parsed>>
    \/ (\E u \in UploadFailures : ClassifyError(u))
           /\ UNCHANGED <<loginVars, storeVars, statsVars, mergeVars, cliVars, sessionVars>>
           /\ UNCHANGED <<weighed, resolved, parsed>>
    \/ (\E cmd \in {"merge", "login"}, pairs \in PairLists, n \in 0..2 :
            n <= Len(pairs) /\ ParseArgs(cmd, pairs, n))
           /\ UNCHANGED <<loginVars, storeVars, statsVars, mergeVars, cliVars, sessionVars>>
           /\ UNCHANGED <<weighed, resolved, classified>>

SpecCalls == InitCalls /\ [][NextCalls]_vars

InitSessions ==
    LoginInit /\ StoreIdleInit /\ StatsInit /\ MergeInit /\ CliInit /\ CallsIdle /\ SessionsInit

NextSessions ==
    \/ (\E l \in Callers, url \in SessionServers : StartLogin(l, url))
           /\ UNCHANGED <<loginVars, storeVars, statsVars, mergeVars, cliVars, callVars>>
    \/ (\E l \in Callers : WakeLogin(l))
           /\ UNCHANGED <<loginVars, storeVars, statsVars, mergeVars, cliVars, callVars>>
    \/ (\E l \in Callers, r \in PollOutcomes : SettleLogin(l, r))
           /\ UNCHANGED <<loginVars, storeVars, statsVars, mergeVars, cliVars, callVars>>

SpecSessions == InitSessions /\ [][NextSessions]_vars

====
